---- MODULE Spec2Model ----
(***************************************************************************)
(* A model of the LaTeX-to-HTML content pipeline of tex2html_book          *)
(* (src/src/tex2html_book/tex2html.py).                                    *)
(*                                                                         *)
(* Text is a sequence of tokens.  A token is a string holding the exact    *)
(* characters it stands for: one character ("$", "~", "%", "&", "\n"),     *)
(* or one LaTeX command with its delimiter ("\\begin{verbatim}",           *)
(* "\\verb|", "\\phantom{").  Every regular expression of the code is      *)
(* translated to a scan over tokens that matches what the expression       *)
(* matches on the characters of those tokens.  A pass whose expressions    *)
(* mention only commands outside the token alphabet is the identity on     *)
(* every text the model builds and is modelled as such.                    *)
(***************************************************************************)
EXTENDS Integers, Sequences, FiniteSets, TLC

VARIABLES
    pc,                 \* latex_to_html: index into PassOrder of the next pass
    input,              \* tex_content, as received
    text,               \* the working text of latex_to_html
    code_placeholders,  \* extract_code_environments: placeholders, by counter
    math_store,         \* protect_math: store
    math_src,           \* history: source content between the delimiters of each saved span
    math_issued,        \* history: the index, the span and the function of each save
    text_extracted,     \* history: the text returned by extract_code_environments
    restored,           \* history: how many tokens each restore replaced, per index
    executed            \* history: the passes run so far, in order

pvars == <<pc, input, text, code_placeholders, math_store, math_src, math_issued,
           text_extracted, restored, executed>>

VARIABLES
    card_stt,           \* convert_environments, _number_headings: card_stt
    scan,               \* re.sub: index in text where the search for the next match starts
    built               \* re.sub: the result built so far

svars == <<card_stt, scan, built>>

VARIABLES
    env_i,              \* convert_environments: index of the loop over environments.items()
    phase,              \* convert_environments: the substitution of the loop body under way
    label_counters,     \* convert_environments: label_counters
    headers             \* history: the header of every environment converted, in call order

evars == <<env_i, phase, label_counters, headers>>

VARIABLES
    subsec,             \* _number_headings: subsec[0]
    subsubsec,          \* _number_headings: subsubsec[0]
    para,               \* _number_headings: para[0]
    nums                \* history: the number given to every heading matched, in order

hvars == <<subsec, subsubsec, para, nums>>

VARIABLES
    sec_i,              \* convert_project_to_cards: idx of the section being converted
    fphase,             \* latex_to_html: the float substitution under way
    figure_counter,     \* convert_project_to_cards: figure_counter[0]
    table_counter,      \* convert_project_to_cards: table_counter[0]
    fig_nums,           \* history: the count given to every figure, in processing order
    tab_nums            \* history: the count given to every table, in processing order

fvars == <<sec_i, fphase, figure_counter, table_counter, fig_nums, tab_nums>>

\* the variables of the functions modelled on their own, apart from
\* convert_environments and _number_headings
VARIABLES
    list_phase,         \* convert_lists: the statement under way
    list_iter,          \* convert_lists: iterations of the loop completed
    list_log            \* history: for every list converted, its \\item commands and <li> emitted

lvars == <<list_phase, list_iter, list_log>>

VARIABLES
    t_phase,            \* _table_repl: the statement under way
    rows,               \* _table_repl: rows
    row_i,              \* _table_repl: index in rows of the row the loop handles next
    seen_header,        \* _table_repl: seen_header, <<>> for None
    data_rows           \* _table_repl: data_rows

tvars == <<t_phase, rows, row_i, seen_header, data_rows>>

VARIABLES
    g_phase,            \* convert_includegraphics: the statement under way
    images_dir,         \* convert_includegraphics: images_dir (None, a path, or a list)
    dirs_exist,         \* the file system: the paths for which os.path.isdir holds
    files_exist         \* the file system: the paths for which os.path.isfile holds

gvars == <<g_phase, images_dir, dirs_exist, files_exist>>

VARIABLES
    c_mode,             \* two invocations: "sequential" or "concurrent" caller
    c_counter,          \* two invocations: figure_counter[0], shared by both
    c_pc,               \* two invocations: the statement each is at
    c_left,             \* two invocations: the figures each has yet to match
    c_tmp,              \* two invocations: the value each loaded for += 1
    c_nums              \* history: the numbers each invocation gave its figures

cvars == <<c_mode, c_counter, c_pc, c_left, c_tmp, c_nums>>

VARIABLES
    a_dialect,          \* pseudocode: "algorithmic" or "algorithm2e"
    a_pc,               \* pseudocode: "called", "lines" or "returned"
    a_lines,            \* pseudocode: content.split('\n')
    a_i,                \* pseudocode: the line the loop is at
    a_indent,           \* pseudocode: indent
    a_out,              \* pseudocode: lines_html, as [ind, html]
    a_stack,            \* history: the open blocks and the level of their first line
    a_last              \* history: the block closed by the line before

avars == <<a_dialect, a_pc, a_lines, a_i, a_indent, a_out, a_stack, a_last>>

VARIABLES
    r_phase,            \* includes: "called", "running" or "returned"
    r_files,            \* includes: the project, path -> content
    r_stack,            \* includes: the calls of resolve_includes in progress
    r_visited,          \* includes: visited
    r_reads,            \* history: the paths opened, in order
    r_skipped,          \* history: the calls answered '' by the visited guard
    r_result            \* includes: what the outermost call returned

rvars == <<r_phase, r_files, r_stack, r_visited, r_reads, r_skipped, r_result>>

xvars == <<fvars, lvars, tvars, gvars, cvars, avars, rvars>>

vars == <<pvars, svars, evars, hvars, xvars>>

\* the state of a function that is not being called
PipelineIdle ==
    /\ pc = 0
    /\ code_placeholders = <<>>
    /\ math_store = <<>>
    /\ math_src = <<>>
    /\ math_issued = <<>>
    /\ text_extracted = <<>>
    /\ restored = [math |-> <<>>, code |-> <<>>]
    /\ executed = <<>>

ScanIdle == card_stt = 0 /\ scan = 0 /\ built = <<>>

EnvironmentsIdle ==
    env_i = 0 /\ phase = "none" /\ label_counters = <<>> /\ headers = <<>>

HeadingsIdle ==
    subsec = 0 /\ subsubsec = 0 /\ para = 0 /\ nums = <<>>

FloatsIdle ==
    /\ sec_i = 0 /\ fphase = "none" /\ figure_counter = 0 /\ table_counter = 0
    /\ fig_nums = <<>> /\ tab_nums = <<>>

ListsIdle == list_phase = "none" /\ list_iter = 0 /\ list_log = <<>>

\* none of the functions modelled on their own is being called
TableIdle ==
    /\ t_phase = "none" /\ rows = <<>> /\ row_i = 0 /\ seen_header = <<>>
    /\ data_rows = <<>>

GraphicsIdle ==
    /\ g_phase = "none" /\ images_dir = [kind |-> "None", dirs |-> <<>>]
    /\ dirs_exist = {} /\ files_exist = {}

InvocationsIdle ==
    /\ c_mode = "none" /\ c_counter = 0 /\ c_pc = <<>> /\ c_left = <<>>
    /\ c_tmp = <<>> /\ c_nums = <<>>

AlgorithmsIdle ==
    /\ a_dialect = "none" /\ a_pc = "idle" /\ a_lines = <<>> /\ a_i = 0
    /\ a_indent = 0 /\ a_out = <<>> /\ a_stack = <<>> /\ a_last = <<>>

IncludesIdle ==
    /\ r_phase = "idle" /\ r_files = <<>> /\ r_stack = <<>> /\ r_visited = {}
    /\ r_reads = <<>> /\ r_skipped = <<>> /\ r_result = <<>>

OthersIdle ==
    /\ FloatsIdle /\ ListsIdle /\ TableIdle /\ GraphicsIdle /\ InvocationsIdle
    /\ AlgorithmsIdle /\ IncludesIdle

----------------------------------------------------------------------------
(* Bounds on the inputs drawn in Init *)
MaxLen == 4
MaxLenDeep == 5
MaxEnvs == 3
MaxHeadings == 5

----------------------------------------------------------------------------
(* Generic helpers on token sequences *)

SeqsUpTo(S, n) == UNION {[1..k -> S] : k \in 0..n}

MinOf(S) == CHOOSE a \in S : \A b \in S : a <= b
MaxOf(S) == CHOOSE a \in S : \A b \in S : a >= b

\* smallest index j >= i with s[j] = tok, 0 when there is none
FirstAt(s, tok, i) ==
    LET J == {j \in i..Len(s) : s[j] = tok}
    IN  IF J = {} THEN 0 ELSE MinOf(J)

\* smallest index j >= i with s[j] \in toks, 0 when there is none
FirstIn(s, toks, i) ==
    LET J == {j \in i..Len(s) : s[j] \in toks}
    IN  IF J = {} THEN 0 ELSE MinOf(J)

CountTok(s, tok) == Cardinality({j \in 1..Len(s) : s[j] = tok})

\* sub is a contiguous subsequence of s
Contains(s, sub) ==
    \E i \in 1..(Len(s) + 1) :
        /\ i + Len(sub) - 1 <= Len(s)
        /\ SubSeq(s, i, i + Len(sub) - 1) = sub

\* str.replace(tok, rep): every occurrence of one token by a token sequence
RECURSIVE ReplaceTok(_, _, _)
ReplaceTok(s, tok, rep) ==
    IF s = <<>> THEN <<>>
    ELSE (IF Head(s) = tok THEN rep ELSE <<Head(s)>>) \o ReplaceTok(Tail(s), tok, rep)

\* Unicode whitespace, as str.strip() and \s see it: the no-break space counts
IsSpace(tok) == tok \in {"\n", " ", "\\u00a0"}

\* str.strip()
Strip(s) ==
    LET N == {j \in 1..Len(s) : ~IsSpace(s[j])}
    IN  IF N = {} THEN <<>> ELSE SubSeq(s, MinOf(N), MaxOf(N))

----------------------------------------------------------------------------
(* Tokens of more than one character that end with a delimiter character *)

\* tokens that end with the character } and hold no other }
ClosesBrace(t) ==
    t \in {"}", "\\begin{verbatim}", "\\end{verbatim}", "\\begin{lstlisting}",
           "\\end{lstlisting}", "\\end{minted}", "\\begin{align}", "\\end{align}",
           "\\begin{cases}", "\\end{cases}"}

\* tokens that end with the character c, for the closing delimiters } | +
EndsWith(t, c) ==
    CASE c = "}" -> ClosesBrace(t)
      [] c = "|" -> t \in {"|", "\\verb|", "\\lstinline|"}
      [] c = "+" -> t \in {"+", "\\verb+"}
      [] OTHER -> t = c

\* such a token without its last character
Chop(t) ==
    CASE t = "\\begin{verbatim}" -> <<"\\begin{verbatim">>
      [] t = "\\end{verbatim}" -> <<"\\end{verbatim">>
      [] t = "\\begin{lstlisting}" -> <<"\\begin{lstlisting">>
      [] t = "\\end{lstlisting}" -> <<"\\end{lstlisting">>
      [] t = "\\end{minted}" -> <<"\\end{minted">>
      [] t = "\\begin{align}" -> <<"\\begin{align">>
      [] t = "\\end{align}" -> <<"\\end{align">>
      [] t = "\\begin{cases}" -> <<"\\begin{cases">>
      [] t = "\\end{cases}" -> <<"\\end{cases">>
      [] t = "\\verb|" -> <<"\\verb">>
      [] t = "\\lstinline|" -> <<"\\lstinline">>
      [] t = "\\verb+" -> <<"\\verb">>
      [] OTHER -> <<>>

----------------------------------------------------------------------------
(* strip_comments: on every line, drop an unescaped % and what follows it.  *)
(* The escaped percent is the token "\\%", never the token "%".             *)

RECURSIVE StripLine(_, _, _, _)
StripLine(s, i, inComment, out) ==
    IF i > Len(s) THEN out
    ELSE IF s[i] = "\n" THEN StripLine(s, i + 1, FALSE, Append(out, s[i]))
    ELSE IF inComment \/ s[i] = "%" THEN StripLine(s, i + 1, TRUE, out)
    ELSE StripLine(s, i + 1, FALSE, Append(out, s[i]))

strip_comments(s) == StripLine(s, 1, FALSE, <<>>)

----------------------------------------------------------------------------
(* extract_code_environments *)

CodeKey(n) == "@@CODE_BLOCK_" \o ToString(n) \o "@@"

EscapeTok(t) ==
    CASE t = "&" -> "&amp;"
      [] t = "<" -> "&lt;"
      [] t = ">" -> "&gt;"
      [] t = "&amp;" -> "&amp;amp;"
      [] t = "&lt;" -> "&amp;lt;"
      [] t = "&gt;" -> "&amp;gt;"
      [] t = "<code>" -> "&lt;code&gt;"
      [] t = "</code>" -> "&lt;/code&gt;"
      [] OTHER -> t

_escape(s) == [j \in 1..Len(s) |-> EscapeTok(s[j])]

\* the html of a block: <pre style=..><code>{content}</code></pre>
BlockHtml(content) == <<"<pre><code>">> \o content \o <<"</code></pre>">>

\* the html of an inline span: <code style=..>{content}</code>
InlineHtml(content) == <<"<code>">> \o content \o <<"</code>">>

\* _verbatim_repl, and _lst_repl without options: escape the stripped group
BlockRepl(content) == BlockHtml(_escape(Strip(content)))

\* _minted_repl: the language badge, then the block
MintedRepl(content) == <<"<div>c</div>">> \o BlockRepl(content)

\* the lambda of the five inline substitutions: escape the group, not stripped
InlineRepl(content) == InlineHtml(_escape(content))

\* re.sub(r'\\begin\{env\}(.*?)\\end\{env\}', repl, text, DOTALL), where repl
\* stores the html under the key of the counter (_placeholder)
RECURSIVE ExtractBlocks(_, _, _, _, _, _)
ExtractBlocks(s, i, b, e, out, store) ==
    IF i > Len(s) THEN [text |-> out, placeholders |-> store]
    ELSE LET j == IF s[i] = b THEN FirstAt(s, e, i + 1) ELSE 0
             c == SubSeq(s, i + 1, j - 1)
         IN  IF j # 0
             THEN ExtractBlocks(s, j + 1, b, e,
                    Append(out, CodeKey(Len(store))),
                    Append(store, IF b = "\\begin{minted}{c}" THEN MintedRepl(c)
                                  ELSE BlockRepl(c)))
             ELSE ExtractBlocks(s, i + 1, b, e, Append(out, s[i]), store)

\* re.sub(r'\\verb\|([^|]*)\|', lambda, text): the html goes into the text itself;
\* the group ends at the first character close, also when that ends a longer token
RECURSIVE ExtractInline(_, _, _, _, _)
ExtractInline(s, i, open, close, out) ==
    IF i > Len(s) THEN out
    ELSE LET J == {j \in (i + 1)..Len(s) : EndsWith(s[j], close)}
         IN  IF s[i] = open /\ J # {}
             THEN LET j == MinOf(J)
                  IN  ExtractInline(s, j + 1, open, close,
                        out \o InlineRepl(SubSeq(s, i + 1, j - 1) \o Chop(s[j])))
             ELSE ExtractInline(s, i + 1, open, close, Append(out, s[i]))

extract_code_environments(s) ==
    LET v  == ExtractBlocks(s, 1, "\\begin{verbatim}", "\\end{verbatim}", <<>>, <<>>)
        l  == ExtractBlocks(v.text, 1, "\\begin{lstlisting}", "\\end{lstlisting}",
                            <<>>, v.placeholders)
        m  == ExtractBlocks(l.text, 1, "\\begin{minted}{c}", "\\end{minted}",
                            <<>>, l.placeholders)
        i1 == ExtractInline(m.text, 1, "\\verb|", "|", <<>>)
        i2 == ExtractInline(i1, 1, "\\verb+", "+", <<>>)
        i3 == ExtractInline(i2, 1, "\\lstinline|", "|", <<>>)
        i4 == ExtractInline(i3, 1, "\\lstinline{", "}", <<>>)
        i5 == ExtractInline(i4, 1, "\\mintinline{c}{", "}", <<>>)
    IN  [text |-> i5, placeholders |-> m.placeholders]

----------------------------------------------------------------------------
(* Commands with one brace argument *)

\* tokens that end with the character { : a command and its opening brace
OpensBrace(t) ==
    t \in {"\\textbf{", "\\phantom{", "\\url{", "\\label{", "\\lstinline{"}

\* re.sub(r'\\cmd\{[^}]*\}', '', text): drop the command with its argument
RECURSIVE RemoveBraced(_, _, _, _)
RemoveBraced(s, i, cmd, out) ==
    IF i > Len(s) THEN out
    ELSE LET J == {j \in (i + 1)..Len(s) : ClosesBrace(s[j])}
         IN  IF s[i] = cmd /\ J # {}
             THEN RemoveBraced(s, MinOf(J) + 1, cmd, out)
             ELSE RemoveBraced(s, i + 1, cmd, Append(out, s[i]))

\* latex_to_html, between code extraction and math protection: page breaks,
\* \label, \texorpdfstring, \definecolor, \renewcommand, \setlength
RemoveLabels(s) == RemoveBraced(s, 1, "\\label{", <<>>)

----------------------------------------------------------------------------
(* protect_math / restore_math *)

MathTok(n) == "\\x00MATH_" \o ToString(n) \o "\\x00"

BeginToks == {"\\begin{verbatim}", "\\begin{lstlisting}", "\\begin{align}", "\\begin{cases}"}
EndToks == {"\\end{verbatim}", "\\end{lstlisting}", "\\end{minted}", "\\end{align}",
            "\\end{cases}"}

\* save: the whole match is stored
save(m) == m

\* save_display: strip \[ and \], store $$content$$
save_display(m) == <<"$", "$">> \o SubSeq(m, 2, Len(m) - 1) \o <<"$", "$">>

\* save_aligned: re.search(r'\\begin\{[^}]*\}(.*?)\\end\{[^}]*\}', content) takes
\* what lies between the first \begin{..} and the first \end{..} of any name
save_aligned(m) ==
    LET b == FirstIn(m, BeginToks, 1)
        e == IF b = 0 THEN 0 ELSE FirstIn(m, EndToks, b + 1)
    IN  IF e # 0
        THEN <<"$", "$", "\\begin{aligned}">> \o SubSeq(m, b + 1, e - 1)
                 \o <<"\\end{aligned}", "$", "$">>
        ELSE <<"$", "$">> \o m \o <<"$", "$">>

\* store = [], counter = [0]
NoMath == [text |-> <<>>, store |-> <<>>, src |-> <<>>, counter |-> 0, log |-> <<>>]

IssueSameIndex(st, stored, inner, span, kind) ==
    [text    |-> Append(st.text, MathTok(st.counter)),
     store   |-> Append(st.store, stored),
     src     |-> Append(st.src, inner),
     counter |-> st.counter,
     log     |-> Append(st.log, [index |-> st.counter, span |-> span, kind |-> kind])]

\* the end of save, save_display and save_aligned: store.append(...),
\* ph = _MATH_PLACEHOLDER % counter[0], counter[0] += 1, return ph
Issue(st, stored, inner, span, kind) ==
    [text    |-> Append(st.text, MathTok(st.counter)),
     store   |-> Append(st.store, stored),
     src     |-> Append(st.src, inner),
     counter |-> st.counter + 1,
     log     |-> Append(st.log, [index |-> st.counter, span |-> span, kind |-> kind])]

\* re.sub(r'\$\$.*?\$\$', save, text, DOTALL)
RECURSIVE ProtectDollars(_, _, _)
ProtectDollars(s, i, st) ==
    IF i > Len(s) THEN st
    ELSE LET J == IF i + 1 <= Len(s) /\ s[i] = "$" /\ s[i + 1] = "$"
                  THEN {j \in (i + 2)..(Len(s) - 1) : s[j] = "$" /\ s[j + 1] = "$"}
                  ELSE {}
         IN  IF J # {}
             THEN LET j == MinOf(J)
                  IN  ProtectDollars(s, j + 2,
                        Issue(st, save(SubSeq(s, i, j + 1)), SubSeq(s, i + 2, j - 1),
                              SubSeq(s, i, j + 1), "save"))
             ELSE ProtectDollars(s, i + 1, [st EXCEPT !.text = Append(@, s[i])])

\* re.sub(r'(?<!\\)\\\[.*?\\\]', save_display, text, DOTALL) and, per math
\* environment, re.sub(r'\\begin\{env\}.*?\\end\{env\}', save_aligned, text, DOTALL)
RECURSIVE ProtectDelimited(_, _, _, _, _, _)
ProtectDelimited(s, i, open, close, aligned, st) ==
    IF i > Len(s) THEN st
    ELSE LET j == IF s[i] = open THEN FirstAt(s, close, i + 1) ELSE 0
         IN  IF j # 0
             THEN LET m == SubSeq(s, i, j)
                  IN  ProtectDelimited(s, j + 1, open, close, aligned,
                        Issue(st, IF aligned THEN save_aligned(m) ELSE save_display(m),
                              SubSeq(s, i + 1, j - 1), m,
                              IF aligned THEN "save_aligned" ELSE "save_display"))
             ELSE ProtectDelimited(s, i + 1, open, close, aligned,
                                   [st EXCEPT !.text = Append(@, s[i])])

\* re.sub(r'(?<!\$)\$(?!\$)((?:[^$\\]|\\.)+?)\$(?!\$)', save, text)
RECURSIVE ProtectInline(_, _, _)
ProtectInline(s, i, st) ==
    IF i > Len(s) THEN st
    ELSE LET j == IF /\ s[i] = "$"
                     /\ (i = 1 \/ s[i - 1] # "$")
                     /\ i + 1 <= Len(s) /\ s[i + 1] # "$"
                  THEN FirstAt(s, "$", i + 1) ELSE 0
         IN  IF j # 0 /\ (j = Len(s) \/ s[j + 1] # "$")
             THEN ProtectInline(s, j + 1,
                    Issue(st, save(SubSeq(s, i, j)), SubSeq(s, i + 1, j - 1),
                          SubSeq(s, i, j), "save"))
             ELSE ProtectInline(s, i + 1, [st EXCEPT !.text = Append(@, s[i])])

Restart(st) == [st EXCEPT !.text = <<>>]

protect_math(s) ==
    LET d == ProtectDollars(s, 1, NoMath)
        b == ProtectDelimited(d.text, 1, "\\[", "\\]", FALSE, Restart(d))
        a == ProtectDelimited(b.text, 1, "\\begin{align}", "\\end{align}", TRUE, Restart(b))
    IN  ProtectInline(a.text, 1, Restart(a))

\* for i, math in enumerate(store): text = text.replace(_MATH_PLACEHOLDER % i, math)
RECURSIVE restore_math_from(_, _, _)
restore_math_from(s, store, i) ==
    IF i >= Len(store) THEN s
    ELSE restore_math_from(ReplaceTok(s, MathTok(i), store[i + 1]), store, i + 1)

restore_math(s, store) == restore_math_from(s, store, 0)

\* history: the number of tokens each iteration of restore_math replaces
RECURSIVE restore_math_counts(_, _, _)
restore_math_counts(s, store, i) ==
    IF i >= Len(store) THEN <<>>
    ELSE <<CountTok(s, MathTok(i))>>
         \o restore_math_counts(ReplaceTok(s, MathTok(i), store[i + 1]), store, i + 1)

\* for key, html in placeholders.items(): text = text.replace(key, html)
RECURSIVE restore_code_from(_, _, _)
restore_code_from(s, placeholders, i) ==
    IF i >= Len(placeholders) THEN s
    ELSE restore_code_from(ReplaceTok(s, CodeKey(i), placeholders[i + 1]),
                           placeholders, i + 1)

restore_code_placeholders(s, placeholders) == restore_code_from(s, placeholders, 0)

RECURSIVE restore_code_counts(_, _, _)
restore_code_counts(s, placeholders, i) ==
    IF i >= Len(placeholders) THEN <<>>
    ELSE <<CountTok(s, CodeKey(i))>>
         \o restore_code_counts(ReplaceTok(s, CodeKey(i), placeholders[i + 1]),
                                placeholders, i + 1)

----------------------------------------------------------------------------
(* Inline formatting (latex_to_html, text formatting to invisible commands) *)

HasBrace(t) == t = "}" \/ OpensBrace(t) \/ ClosesBrace(t)

\* the index of the } that ends ((?:[^{}]|\{[^{}]*\})*)\} started at i, 0 when
\* the expression does not match
RECURSIVE MatchClose(_, _)
MatchClose(s, i) ==
    IF i > Len(s) THEN 0
    ELSE IF s[i] = "}" THEN i
    ELSE IF OpensBrace(s[i])
         THEN LET J == {j \in (i + 1)..Len(s) : HasBrace(s[j])}
              IN  IF J # {} /\ s[MinOf(J)] = "}" THEN MatchClose(s, MinOf(J) + 1) ELSE 0
         ELSE MatchClose(s, i + 1)

\* re.sub(r'\\textbf\{((?:[^{}]|\{[^{}]*\})*)\}', r'<strong>\1</strong>', text)
RECURSIVE WrapBraced(_, _, _, _, _, _)
WrapBraced(s, i, cmd, open, close, out) ==
    IF i > Len(s) THEN out
    ELSE LET j == IF s[i] = cmd THEN MatchClose(s, i + 1) ELSE 0
         IN  IF j # 0
             THEN WrapBraced(s, j + 1, cmd, open, close,
                             out \o <<open>> \o SubSeq(s, i + 1, j - 1) \o <<close>>)
             ELSE WrapBraced(s, i + 1, cmd, open, close, Append(out, s[i]))

TextBf(s) == WrapBraced(s, 1, "\\textbf{", "<strong>", "</strong>", <<>>)

\* re.sub(r'\\url\{([^}]*)\}', r'<a href="\1" target="_blank">\1</a>', text)
RECURSIVE Url(_, _, _)
Url(s, i, out) ==
    IF i > Len(s) THEN out
    ELSE LET J == {j \in (i + 1)..Len(s) : ClosesBrace(s[j])}
         IN  IF s[i] = "\\url{" /\ J # {}
             THEN LET j == MinOf(J)
                      c == SubSeq(s, i + 1, j - 1) \o Chop(s[j])
                  IN  Url(s, j + 1,
                          out \o <<"<a href=\"">> \o c \o <<"\" target=\"_blank\">">>
                              \o c \o <<"</a>">>)
             ELSE Url(s, i + 1, Append(out, s[i]))

\* for _ in range(3): \textbf ...; then \url; then \phantom, in the code's order
InlineFormat(s) ==
    RemoveBraced(Url(TextBf(TextBf(TextBf(s))), 1, <<>>), 1, "\\phantom{", <<>>)

----------------------------------------------------------------------------
(* Special characters: the replacements of one token *)

SpecialTok(t) ==
    CASE t = "\\&" -> "&amp;"
      [] t = "\\%" -> "%"
      [] t = "\\_" -> "_"
      [] t = "\\#" -> "#"
      [] t = "\\ldots" -> "\\u2026"
      [] t = "\\dots" -> "\\u2026"
      [] t = "\\colon" -> ":"
      [] t = "\\quad" -> " "
      [] t = "\\," -> " "
      [] t = "~" -> "\\u00a0"
      [] t = "\\checkmark" -> "\\u2713"
      [] OTHER -> t

\* str.replace of a run of n tokens c by r, left to right
RECURSIVE ReplaceRun(_, _, _, _, _, _)
ReplaceRun(s, i, c, n, r, out) ==
    IF i > Len(s) THEN out
    ELSE IF i + n - 1 <= Len(s) /\ \A k \in i..(i + n - 1) : s[k] = c
         THEN ReplaceRun(s, i + n, c, n, r, Append(out, r))
         ELSE ReplaceRun(s, i + 1, c, n, r, Append(out, s[i]))

\* text.replace('---', '&mdash;'), then text.replace('--', '&ndash;')
Dashes(s) ==
    ReplaceRun(ReplaceRun(s, 1, "-", 3, "&mdash;", <<>>), 1, "-", 2, "&ndash;", <<>>)

SpecialChars(s) == LET d == Dashes(s) IN [j \in 1..Len(d) |-> SpecialTok(d[j])]

----------------------------------------------------------------------------
(* Paragraph wrapping *)

\* the placeholder counters never exceed the length of the input
KeyRange == 0..(MaxLenDeep + 1)

IsCodeKey(t) == \E n \in KeyRange : t = CodeKey(n)
IsMathTok(t) == \E n \in KeyRange : t = MathTok(n)

\* the index of the last \n of the run of whitespace that starts at i
SeparatorEnd(s, i) ==
    LET stop == {k \in i..Len(s) : ~IsSpace(s[k])}
        last == IF stop = {} THEN Len(s) ELSE MinOf(stop) - 1
    IN  MaxOf({k \in i..last : s[k] = "\n"})

\* re.split(r'\n\s*\n', text)
RECURSIVE SplitBlocks(_, _, _, _)
SplitBlocks(s, i, cur, blocks) ==
    IF i > Len(s) THEN Append(blocks, cur)
    ELSE IF s[i] = "\n" /\ SeparatorEnd(s, i) > i
         THEN SplitBlocks(s, SeparatorEnd(s, i) + 1, <<>>, Append(blocks, cur))
         ELSE SplitBlocks(s, i + 1, Append(cur, s[i]), blocks)

\* any(block.startswith(t) for t in block_tags), for the tags a token can start with:
\* '<pre', '$$', '@@CODE_BLOCK_'
StartsWithBlockTag(b) ==
    \/ IsCodeKey(b[1])
    \/ b[1] = "<pre><code>"
    \/ Len(b) >= 2 /\ b[1] = "$" /\ b[2] = "$"

\* any(t in block for t in inline_block_tags): '<pre', '@@CODE_BLOCK_'
HoldsInlineBlockTag(b) ==
    \E j \in 1..Len(b) : IsCodeKey(b[j]) \/ b[j] = "<pre><code>"

WrapBlock(b) ==
    IF StartsWithBlockTag(b) \/ HoldsInlineBlockTag(b) THEN b
    ELSE <<"<p>">> \o b \o <<"</p>">>

RECURSIVE JoinBlocks(_, _, _)
JoinBlocks(blocks, i, out) ==
    IF i > Len(blocks) THEN out
    ELSE LET b == Strip(blocks[i])
         IN  IF b = <<>> THEN JoinBlocks(blocks, i + 1, out)
             ELSE JoinBlocks(blocks, i + 1,
                    (IF out = <<>> THEN <<>> ELSE out \o <<"\n", "\n">>) \o WrapBlock(b))

WrapParagraphs(s) == JoinBlocks(SplitBlocks(s, 1, <<>>, <<>>), 1, <<>>)

\* re.sub(r'\n{3,}', '\n\n', text)
RECURSIVE SquashNewlines(_, _, _)
SquashNewlines(s, i, out) ==
    IF i > Len(s) THEN out
    ELSE IF s[i] = "\n" /\ Len(out) >= 2 /\ out[Len(out)] = "\n" /\ out[Len(out) - 1] = "\n"
         THEN SquashNewlines(s, i + 1, out)
         ELSE SquashNewlines(s, i + 1, Append(out, s[i]))

Cleanup(s) == Strip(SquashNewlines(s, 1, <<>>))

----------------------------------------------------------------------------
(* latex_to_html as a state machine: one action per pass, run in PassOrder *)

\* a pass order that restores the code blocks before the special characters
PassOrderCodeRestoredEarly ==
    <<"strip_comments", "extract_code", "remove_labels", "protect_math",
      "convert_structures", "inline_format", "restore_code", "special_chars",
      "wrap_paragraphs", "restore_math", "cleanup">>

\* a pass order that protects math before it extracts the code
PassOrderMathFirst ==
    <<"strip_comments", "protect_math", "extract_code", "remove_labels",
      "convert_structures", "inline_format", "special_chars", "wrap_paragraphs",
      "restore_math", "restore_code", "cleanup">>

\* the order of the passes in the body of latex_to_html
PassOrder ==
    <<"strip_comments", "extract_code", "remove_labels", "protect_math",
      "convert_structures", "inline_format", "special_chars", "wrap_paragraphs",
      "restore_math", "restore_code", "cleanup">>

AtPass(name) == pc <= Len(PassOrder) /\ PassOrder[pc] = name

\* the section texts the pipeline is run on: every token sequence, up to a
\* length, over each of these alphabets
CodeAlphabet == {"~", "%", "\n", "&", "\\begin{verbatim}", "\\end{verbatim}"}
ListingAlphabet ==
    {"\\begin{lstlisting}", "\\end{lstlisting}", "\\begin{minted}{c}", "\\end{minted}",
     "~", "\n"}
InlineCodeAlphabet == {"\\verb|", "|", "\\lstinline{", "}", "~", "&"}
MathAlphabet == {"$", "\\[", "\\]", "x", "~", "\n"}
AlignAlphabet ==
    {"\\begin{align}", "\\end{align}", "\\begin{cases}", "\\end{cases}", "x"}
CodeFormatAlphabet == {"\\begin{verbatim}", "\\end{verbatim}", "\\textbf{", "x", "}"}
DollarAlphabet == {"$", "~", "\n"}
PhantomAlphabet == {"\\phantom{", "}", "$", "x"}
UrlAlphabet == {"\\url{", "}", "$", "x"}
CodeMathAlphabet == {"\\begin{verbatim}", "\\end{verbatim}", "$", "~"}
PlainAlphabet == {"x", " ", "\n", "-", "~"}

Inputs ==
    SeqsUpTo(CodeAlphabet, MaxLen) \cup SeqsUpTo(ListingAlphabet, MaxLen)
    \cup SeqsUpTo(InlineCodeAlphabet, MaxLen) \cup SeqsUpTo(MathAlphabet, MaxLen)
    \cup SeqsUpTo(AlignAlphabet, MaxLen) \cup SeqsUpTo(CodeFormatAlphabet, MaxLen)
    \cup SeqsUpTo(DollarAlphabet, MaxLenDeep) \cup SeqsUpTo(PhantomAlphabet, MaxLenDeep)
    \cup SeqsUpTo(UrlAlphabet, MaxLenDeep) \cup SeqsUpTo(CodeMathAlphabet, MaxLenDeep)
    \cup SeqsUpTo(PlainAlphabet, MaxLen)

Init ==
    /\ pc = 1
    /\ input \in Inputs
    /\ text = input
    /\ code_placeholders = <<>>
    /\ math_store = <<>>
    /\ math_src = <<>>
    /\ math_issued = <<>>
    /\ text_extracted = <<>>
    /\ restored = [math |-> <<>>, code |-> <<>>]
    /\ executed = <<>>
    /\ ScanIdle
    /\ EnvironmentsIdle
    /\ HeadingsIdle
    /\ OthersIdle

Ran(name) ==
    /\ pc' = pc + 1
    /\ executed' = Append(executed, name)
    /\ UNCHANGED <<input, svars, evars, hvars, xvars>>

StripComments ==
    /\ AtPass("strip_comments")
    /\ text' = strip_comments(text)
    /\ Ran("strip_comments")
    /\ UNCHANGED <<code_placeholders, math_store, math_src, math_issued, text_extracted, restored>>

ExtractCode ==
    /\ AtPass("extract_code")
    /\ LET r == extract_code_environments(text)
       IN  /\ text' = r.text
           /\ code_placeholders' = r.placeholders
           /\ text_extracted' = r.text
    /\ Ran("extract_code")
    /\ UNCHANGED <<math_store, math_src, math_issued, restored>>

RemoveLabelsPass ==
    /\ AtPass("remove_labels")
    /\ text' = RemoveLabels(text)
    /\ Ran("remove_labels")
    /\ UNCHANGED <<code_placeholders, math_store, math_src, math_issued, text_extracted, restored>>

ProtectMath ==
    /\ AtPass("protect_math")
    /\ LET r == protect_math(text)
       IN  /\ text' = r.text
           /\ math_store' = r.store
           /\ math_src' = r.src
           /\ math_issued' = r.log
    /\ Ran("protect_math")
    /\ UNCHANGED <<code_placeholders, text_extracted, restored>>

\* convert_algorithm_environments, convert_environments, the figure and table
\* captions, convert_includegraphics, convert_tabular, convert_lists and
\* _number_headings: none of their expressions matches a text over the alphabets
\* above, so the working text passes through
ConvertStructures ==
    /\ AtPass("convert_structures")
    /\ text' = text
    /\ Ran("convert_structures")
    /\ UNCHANGED <<code_placeholders, math_store, math_src, math_issued, text_extracted, restored>>

InlineFormatPass ==
    /\ AtPass("inline_format")
    /\ text' = InlineFormat(text)
    /\ Ran("inline_format")
    /\ UNCHANGED <<code_placeholders, math_store, math_src, math_issued, text_extracted, restored>>

SpecialCharsPass ==
    /\ AtPass("special_chars")
    /\ text' = SpecialChars(text)
    /\ Ran("special_chars")
    /\ UNCHANGED <<code_placeholders, math_store, math_src, math_issued, text_extracted, restored>>

WrapParagraphsPass ==
    /\ AtPass("wrap_paragraphs")
    /\ text' = WrapParagraphs(text)
    /\ Ran("wrap_paragraphs")
    /\ UNCHANGED <<code_placeholders, math_store, math_src, math_issued, text_extracted, restored>>

RestoreMath ==
    /\ AtPass("restore_math")
    /\ text' = restore_math(text, math_store)
    /\ restored' = [restored EXCEPT !.math = restore_math_counts(text, math_store, 0)]
    /\ Ran("restore_math")
    /\ UNCHANGED <<code_placeholders, math_store, math_src, math_issued, text_extracted>>

RestoreCode ==
    /\ AtPass("restore_code")
    /\ text' = restore_code_placeholders(text, code_placeholders)
    /\ restored' = [restored EXCEPT
                      !.code = restore_code_counts(text, code_placeholders, 0)]
    /\ Ran("restore_code")
    /\ UNCHANGED <<code_placeholders, math_store, math_src, math_issued, text_extracted>>

CleanupPass ==
    /\ AtPass("cleanup")
    /\ text' = Cleanup(text)
    /\ Ran("cleanup")
    /\ UNCHANGED <<code_placeholders, math_store, math_src, math_issued, text_extracted, restored>>

Next ==
    \/ StripComments
    \/ ExtractCode
    \/ RemoveLabelsPass
    \/ ProtectMath
    \/ ConvertStructures
    \/ InlineFormatPass
    \/ SpecialCharsPass
    \/ WrapParagraphsPass
    \/ RestoreMath
    \/ RestoreCode
    \/ CleanupPass

Spec == Init /\ [][Next]_vars

Returned == pc = Len(PassOrder) + 1

----------------------------------------------------------------------------
(* Observations used by the properties *)

\* the position of a pass among the passes run so far, 0 when it has not run
Pos(name) ==
    LET J == {i \in 1..Len(executed) : executed[i] = name}
    IN  IF J = {} THEN 0 ELSE MinOf(J)

Done(name) == Pos(name) # 0

Before(a, b) == Done(b) => (Done(a) /\ Pos(a) < Pos(b))

\* the segments of s from a token open to the next token close
Segments(s, open, close) ==
    {SubSeq(s, i, FirstAt(s, close, i + 1)) :
        i \in {k \in 1..Len(s) : s[k] = open /\ FirstAt(s, close, k + 1) # 0}}

Range(f) == {f[i] : i \in DOMAIN f}

\* the content of a math span that holds no math delimiter of its own and whose
\* inner environments are balanced
RECURSIVE Balanced(_, _, _)
Balanced(s, i, depth) ==
    IF i > Len(s) THEN depth = 0
    ELSE IF s[i] = "\\begin{cases}" THEN Balanced(s, i + 1, depth + 1)
    ELSE IF s[i] = "\\end{cases}" THEN depth > 0 /\ Balanced(s, i + 1, depth - 1)
    ELSE Balanced(s, i + 1, depth)

WellFormedMath(c) ==
    /\ \A j \in 1..Len(c) :
           /\ c[j] \notin {"$", "\\[", "\\]", "\\begin{align}", "\\end{align}"}
           /\ ~IsMathTok(c[j])
    /\ Balanced(c, 1, 0)

HoldsPlaceholder(s) == \E j \in 1..Len(s) : IsCodeKey(s[j]) \/ IsMathTok(s[j])

----------------------------------------------------------------------------
(* Properties of latex_to_html *)

\* C1: code extraction is the first rewrite of the section text, so what is stored
\* for each verbatim/lstlisting/minted block is what extraction stores when it is
\* given the section text as received: the block's source content, trimmed, with
\* & < > escaped once.  Stated for the section texts whose every % lies inside a
\* code block (outside the blocks there is no comment to strip).
C1_StoredFromSource ==
    LET raw == extract_code_environments(input)
    IN  (Done("extract_code") /\ strip_comments(raw.text) = raw.text) =>
            code_placeholders = raw.placeholders

C3_InlineContentLiteral ==
    Returned =>
        Segments(text, "<code>", "</code>")
            \subseteq Segments(text_extracted, "<code>", "</code>")

\* C4: in every run the passes come in this order: extract_code_environments,
\* protect_math, the conversion passes and paragraph wrapping, restore_math,
\* restore_code_placeholders.
C4_ProtectRestoreOrder ==
    /\ Before("extract_code", "protect_math")
    /\ \A c \in {"convert_structures", "inline_format", "special_chars",
                 "wrap_paragraphs"} :
           Before("protect_math", c) /\ Before(c, "restore_math")
    /\ Before("restore_math", "restore_code")
    /\ Before("wrap_paragraphs", "restore_code")

\* a run with a math span and a code block has returned
C4_Witness ==
    /\ Returned
    /\ math_store # <<>>
    /\ code_placeholders # <<>>
    /\ Done("restore_code")

\* C5: when latex_to_html returns, every math index and every code key has been
\* replaced by its stored content exactly once and no placeholder token is left.
C5_RestoredExactlyOnce ==
    Returned =>
        /\ ~HoldsPlaceholder(text)
        /\ Len(restored.math) = Len(math_store)
        /\ Len(restored.code) = Len(code_placeholders)
        /\ \A i \in 1..Len(restored.math) : restored.math[i] = 1
        /\ \A i \in 1..Len(restored.code) : restored.code[i] = 1

\* C6: the content between the delimiters of every well-formed math span is
\* stored unchanged by protect_math, and is in the text after restore_math.
C6_MathRoundTrip ==
    /\ Done("protect_math") =>
           \A i \in 1..Len(math_store) :
               WellFormedMath(math_src[i]) => Contains(math_store[i], math_src[i])
    /\ Done("restore_math") =>
           \A i \in 1..Len(math_src) :
               WellFormedMath(math_src[i]) => Contains(text, math_src[i])

\* C7: paragraph wrapping emits a block that starts with a pending math or code
\* placeholder unwrapped: no <p> is followed by a placeholder token.
C7_PlaceholderBlockUnwrapped ==
    (Done("wrap_paragraphs") /\ ~Done("restore_math")) =>
        \A j \in 1..(Len(text) - 1) :
            text[j] = "<p>" => ~(IsMathTok(text[j + 1]) \/ IsCodeKey(text[j + 1]))

----------------------------------------------------------------------------
(* convert_environments(text, environments, proof_label, card_stt)         *)
(*                                                                         *)
(* One action per call of a replacement function by re.sub, and one per    *)
(* end of a substitution.  During a substitution the text is the one being *)
(* searched, scan is where the search for the next match starts, and built *)
(* is the result built so far.                                             *)

NUMBERED_CSS_WithBoxes == {"env-theorem", "env-definition", "env-example", "box-yellow"}

NUMBERED_CSS == {"env-theorem", "env-definition", "env-example"}

\* environments.items(): entries of DEFAULT_ENVIRONMENTS in their order (two of
\* them share the label "Dinh ly"), then an entry added by the configuration
environments ==
    << [name |-> "dinhly",    css |-> "env-theorem",    label |-> "Dinh ly"],
       [name |-> "dinhri",    css |-> "env-theorem",    label |-> "Dinh ly"],
       [name |-> "example",   css |-> "env-example",    label |-> "Example"],
       [name |-> "remark",    css |-> "box-yellow",     label |-> "Remark"],
       [name |-> "dinhnghia", css |-> "env-definition", label |-> "Dinh nghia"] >>

proof_label == "Proof"

CardStts == {0, 8}

EnvNames == {environments[i].name : i \in DOMAIN environments}

Labels == {environments[i].label : i \in DOMAIN environments}

BeginEnv(name) == "\\begin{" \o name \o "}"

EndEnv(name) == "\\end{" \o name \o "}"

\* the text matched by \[([^\]]*)\] right after \begin{env}
TitleToks == {"[t]", "[]"}

\* m.group(1).strip() of a title
TitleOf(tok) == IF tok = "[t]" THEN "t" ELSE ""

\* prefix = str(card_stt) if card_stt else ''
prefix == IF card_stt # 0 THEN ToString(card_stt) ELSE ""

\* num = f'{prefix}.{count}' if prefix else str(count)
Num(count) == IF prefix # "" THEN prefix \o "." \o ToString(count) ELSE ToString(count)

BumpAll(counters, lb) == [l \in DOMAIN counters |-> counters[l] + 1]

\* label_counters[lb] = label_counters.get(lb, 0) + 1
Bump(counters, lb) == [counters EXCEPT ![lb] = @ + 1]

\* f'<div class="{cc}"><strong>{ts}:</strong><br>\n{c}\n</div>'
HeaderTok(cc, ts) == "<div class=\"" \o cc \o "\"><strong>" \o ts \o ":</strong><br>"

Div(cc, ts, c) == <<HeaderTok(cc, ts), "\n">> \o c \o <<"\n", "</div>">>

\* start of the leftmost match of pat_title at or after i, 0 when there is none
TitleMatch(s, name, i) ==
    LET B == {b \in i..(Len(s) - 1) :
                 /\ s[b] = BeginEnv(name)
                 /\ s[b + 1] \in TitleToks
                 /\ FirstAt(s, EndEnv(name), b + 2) # 0}
    IN  IF B = {} THEN 0 ELSE MinOf(B)

\* start of the leftmost match of pat_no (or of the proof pattern) at or after i
NoTitleMatch(s, name, i) ==
    LET B == {b \in i..Len(s) :
                 s[b] = BeginEnv(name) /\ FirstAt(s, EndEnv(name), b + 1) # 0}
    IN  IF B = {} THEN 0 ELSE MinOf(B)

repl_title(env, t, c, cc, lb, counters) ==
    LET sn == cc \in NUMBERED_CSS
        bumped == Bump(counters, lb)
        num == Num(bumped[lb])
        ts == IF sn
              THEN (IF t # "" THEN lb \o " " \o num \o " (" \o t \o ")"
                              ELSE lb \o " " \o num)
              ELSE (IF t # "" THEN lb \o " (" \o t \o ")" ELSE lb)
    IN  [html |-> Div(cc, ts, Strip(c)),
         counters |-> IF sn THEN bumped ELSE counters,
         header |-> [env |-> env, css |-> cc, label |-> lb, title |-> t, ts |-> ts,
                     count |-> IF sn THEN bumped[lb] ELSE 0]]

repl_no(env, c, cc, lb, counters) ==
    LET sn == cc \in NUMBERED_CSS
        bumped == Bump(counters, lb)
        num == Num(bumped[lb])
        ts == IF sn THEN lb \o " " \o num ELSE lb
    IN  [html |-> Div(cc, ts, Strip(c)),
         counters |-> IF sn THEN bumped ELSE counters,
         header |-> [env |-> env, css |-> cc, label |-> lb, title |-> "", ts |-> ts,
                     count |-> IF sn THEN bumped[lb] ELSE 0]]

\* the lambda of the proof substitution
repl_proof(c) ==
    [html |-> Div("env-proof", proof_label, Strip(c)),
     header |-> [env |-> "proof", css |-> "env-proof", label |-> proof_label,
                 title |-> "", ts |-> proof_label, count |-> 0]]

----------------------------------------------------------------------------
(* The texts given to convert_environments: environments one after another, *)
(* and one environment inside another                                       *)

Item(name, title, body) == <<BeginEnv(name)>> \o title \o body \o <<EndEnv(name)>>

FlatItems ==
    {Item(n, t, <<"x">>) : n \in EnvNames \cup {"proof"}, t \in {<<>>, <<"[t]">>}}

RECURSIVE ItemTexts(_)
ItemTexts(k) ==
    IF k = 0 THEN {<<>>}
    ELSE LET shorter == ItemTexts(k - 1)
         IN  shorter \cup {a \o b : a \in shorter, b \in FlatItems}

NestedItems ==
    {Item(n, t, Item(m, u, <<"x">>)) :
        n \in EnvNames \cup {"proof"}, m \in EnvNames \cup {"proof"},
        t \in {<<>>, <<"[t]">>, <<"[]">>}, u \in {<<>>, <<"[t]">>, <<"[]">>}}

EnvInputs == ItemTexts(MaxEnvs) \cup NestedItems

InitEnv ==
    /\ input \in EnvInputs
    /\ text = input
    /\ card_stt \in CardStts
    /\ scan = 1
    /\ built = <<>>
    /\ env_i = 1
    /\ phase = "title"
    /\ label_counters = [l \in Labels |-> 0]
    /\ headers = <<>>
    /\ PipelineIdle
    /\ HeadingsIdle
    /\ OthersIdle

InLoop == env_i \in DOMAIN environments

\* the substitution has no further match: re.sub returns, text is assigned
SubReturns == text' = built \o SubSeq(text, scan, Len(text)) /\ scan' = 1 /\ built' = <<>>

EnvFrame == UNCHANGED <<pc, input, code_placeholders, math_store, math_src, math_issued,
                        text_extracted, restored, executed, card_stt, hvars, xvars>>

ReplTitle ==
    /\ InLoop /\ phase = "title"
    /\ LET e == environments[env_i]
           b == TitleMatch(text, e.name, scan)
       IN  /\ b # 0
           /\ LET close == FirstAt(text, EndEnv(e.name), b + 2)
                  r == repl_title(e.name, TitleOf(text[b + 1]),
                                  SubSeq(text, b + 2, close - 1),
                                  e.css, e.label, label_counters)
              IN  /\ built' = built \o SubSeq(text, scan, b - 1) \o r.html
                  /\ scan' = close + 1
                  /\ label_counters' = r.counters
                  /\ headers' = Append(headers, r.header)
    /\ UNCHANGED <<text, env_i, phase>>
    /\ EnvFrame

EndTitle ==
    /\ InLoop /\ phase = "title"
    /\ TitleMatch(text, environments[env_i].name, scan) = 0
    /\ SubReturns
    /\ phase' = "no"
    /\ UNCHANGED <<env_i, label_counters, headers>>
    /\ EnvFrame

ReplNo ==
    /\ InLoop /\ phase = "no"
    /\ LET e == environments[env_i]
           b == NoTitleMatch(text, e.name, scan)
       IN  /\ b # 0
           /\ LET close == FirstAt(text, EndEnv(e.name), b + 1)
                  r == repl_no(e.name, SubSeq(text, b + 1, close - 1),
                               e.css, e.label, label_counters)
              IN  /\ built' = built \o SubSeq(text, scan, b - 1) \o r.html
                  /\ scan' = close + 1
                  /\ label_counters' = r.counters
                  /\ headers' = Append(headers, r.header)
    /\ UNCHANGED <<text, env_i, phase>>
    /\ EnvFrame

EndNo ==
    /\ InLoop /\ phase = "no"
    /\ NoTitleMatch(text, environments[env_i].name, scan) = 0
    /\ SubReturns
    /\ env_i' = env_i + 1
    /\ phase' = IF env_i = Len(environments) THEN "proof" ELSE "title"
    /\ UNCHANGED <<label_counters, headers>>
    /\ EnvFrame

ReplProof ==
    /\ phase = "proof"
    /\ LET b == NoTitleMatch(text, "proof", scan)
       IN  /\ b # 0
           /\ LET close == FirstAt(text, EndEnv("proof"), b + 1)
                  r == repl_proof(SubSeq(text, b + 1, close - 1))
              IN  /\ built' = built \o SubSeq(text, scan, b - 1) \o r.html
                  /\ scan' = close + 1
                  /\ headers' = Append(headers, r.header)
    /\ UNCHANGED <<text, env_i, phase, label_counters>>
    /\ EnvFrame

EnvReturn ==
    /\ phase = "proof"
    /\ NoTitleMatch(text, "proof", scan) = 0
    /\ SubReturns
    /\ phase' = "returned"
    /\ UNCHANGED <<env_i, label_counters, headers>>
    /\ EnvFrame

NextEnv ==
    \/ ReplTitle
    \/ EndTitle
    \/ ReplNo
    \/ EndNo
    \/ ReplProof
    \/ EnvReturn

SpecEnv == InitEnv /\ [][NextEnv]_vars

EnvReturned == phase = "returned"

----------------------------------------------------------------------------
(* Properties of convert_environments *)

\* the headers numbered so far for a label
NumberedFor(L) ==
    {i \in DOMAIN headers : headers[i].label = L /\ headers[i].count # 0}

\* no environment starts inside an environment of its own name
SelfNestFree(s) ==
    \A b \in 1..Len(s) : \A n \in EnvNames :
        s[b] = BeginEnv(n) =>
            LET close == FirstAt(s, EndEnv(n), b + 1)
            IN  close # 0 /\ \A j \in (b + 1)..close : s[j] # BeginEnv(n)

\* the environments of a text that display a label and have a numbered style-class
OccurrencesOf(s, L) ==
    {b \in 1..Len(s) :
        \E i \in DOMAIN environments :
            /\ s[b] = BeginEnv(environments[i].name)
            /\ environments[i].label = L
            /\ environments[i].css \in {"env-theorem", "env-definition", "env-example"}}

\* C8: within one call the numbered environments are counted per display label:
\* the occurrences of a label L receive exactly the numbers 1..k, k the number of
\* occurrences of L, whatever the other labels do; every call starts from
\* empty counters.
C8_PerLabelNumbers ==
    \A L \in Labels :
        /\ {headers[i].count : i \in NumberedFor(L)} = 1..Cardinality(NumberedFor(L))
        /\ label_counters[L] = Cardinality(NumberedFor(L))
        /\ (EnvReturned /\ SelfNestFree(input)) =>
               Cardinality(NumberedFor(L)) = Cardinality(OccurrencesOf(input, L))

\* a call has returned that numbered two environments of different names under
\* one label and an environment under another label
C8_Witness ==
    /\ EnvReturned
    /\ \E i, j \in NumberedFor("Dinh ly") :
           headers[i].env = "dinhly" /\ headers[j].env = "dinhri"
    /\ NumberedFor("Example") # {}

\* C9: an environment is numbered if and only if its style-class is env-theorem,
\* env-definition or env-example; an environment of another style-class and the
\* proof environment get a header without a number and leave the counters as
\* they are; the number is card_stt.count when card_stt is not zero and the count
\* alone otherwise.  Every header is in the text under construction.
C9_NumberedIffStyleClass ==
    /\ \A i \in DOMAIN headers :
           LET h == headers[i]
               k == Cardinality({j \in 1..i :
                        /\ headers[j].label = h.label
                        /\ headers[j].env # "proof"
                        /\ headers[j].css \in
                               {"env-theorem", "env-definition", "env-example"}})
               number == IF card_stt # 0
                         THEN ToString(card_stt) \o "." \o ToString(k)
                         ELSE ToString(k)
               suffix == IF h.title # "" THEN " (" \o h.title \o ")" ELSE ""
           IN  /\ IF /\ h.env # "proof"
                     /\ h.css \in {"env-theorem", "env-definition", "env-example"}
                  THEN h.ts = h.label \o " " \o number \o suffix
                  ELSE h.ts = h.label \o suffix
               /\ \E j \in 1..Len(built \o text) :
                      (built \o text)[j] = HeaderTok(h.css, h.ts)
    /\ \A L \in Labels :
           label_counters[L] =
               Cardinality({i \in DOMAIN headers :
                   /\ headers[i].label = L
                   /\ headers[i].env # "proof"
                   /\ headers[i].css \in
                          {"env-theorem", "env-definition", "env-example"}})

\* a call with a non-zero card_stt has returned that converted a numbered
\* environment, a box and a proof
C9_Witness ==
    /\ EnvReturned
    /\ card_stt # 0
    /\ \E i, j, k \in DOMAIN headers :
           /\ headers[i].css = "env-example"
           /\ headers[j].css = "box-yellow"
           /\ headers[k].env = "proof"

----------------------------------------------------------------------------
(* _number_headings(text, card_stt)                                        *)
(*                                                                         *)
(* One action per call of _repl by heading_pat.sub, by level, and one for  *)
(* the return.                                                             *)

HeadingToks ==
    {"\\subsection{T}", "\\subsection*{T}", "\\subsubsection{T}", "\\paragraph{T}"}

\* m.group(1)
LevelOf(tok) ==
    IF tok \in {"\\subsection{T}", "\\subsection*{T}"} THEN "subsection"
    ELSE IF tok = "\\subsubsection{T}" THEN "subsubsection"
    ELSE IF tok = "\\paragraph{T}" THEN "paragraph"
    ELSE "none"

\* f'{prefix}.' when there is a prefix
Dotted == IF prefix # "" THEN prefix \o "." ELSE ""

_repl_para_kept(level, c) ==
    IF level = "subsection" THEN
        LET num == Dotted \o ToString(c.subsec + 1)
        IN  [subsec |-> c.subsec + 1, subsubsec |-> 0, para |-> 0,
             num |-> num, html |-> "<h4>" \o num \o ". T</h4>"]
    ELSE IF level = "subsubsection" THEN
        LET num == Dotted \o ToString(c.subsec) \o "." \o ToString(c.subsubsec + 1)
        IN  [subsec |-> c.subsec, subsubsec |-> c.subsubsec + 1, para |-> c.para,
             num |-> num, html |-> "<h5>" \o num \o ". T</h5>"]
    ELSE
        LET num == IF c.subsubsec > 0
                   THEN Dotted \o ToString(c.subsec) \o "." \o ToString(c.subsubsec)
                               \o "." \o ToString(c.para + 1)
                   ELSE IF c.subsec > 0
                   THEN Dotted \o ToString(c.subsec) \o "." \o ToString(c.para + 1)
                   ELSE Dotted \o ToString(c.para + 1)
        IN  [subsec |-> c.subsec, subsubsec |-> c.subsubsec, para |-> c.para + 1,
             num |-> num, html |-> "<h6>" \o num \o ". T</h6>"]

_repl(level, c) ==
    IF level = "subsection" THEN
        LET num == Dotted \o ToString(c.subsec + 1)
        IN  [subsec |-> c.subsec + 1, subsubsec |-> 0, para |-> 0,
             num |-> num, html |-> "<h4>" \o num \o ". T</h4>"]
    ELSE IF level = "subsubsection" THEN
        LET num == Dotted \o ToString(c.subsec) \o "." \o ToString(c.subsubsec + 1)
        IN  [subsec |-> c.subsec, subsubsec |-> c.subsubsec + 1, para |-> 0,
             num |-> num, html |-> "<h5>" \o num \o ". T</h5>"]
    ELSE
        LET num == IF c.subsubsec > 0
                   THEN Dotted \o ToString(c.subsec) \o "." \o ToString(c.subsubsec)
                               \o "." \o ToString(c.para + 1)
                   ELSE IF c.subsec > 0
                   THEN Dotted \o ToString(c.subsec) \o "." \o ToString(c.para + 1)
                   ELSE Dotted \o ToString(c.para + 1)
        IN  [subsec |-> c.subsec, subsubsec |-> c.subsubsec, para |-> c.para + 1,
             num |-> num, html |-> "<h6>" \o num \o ". T</h6>"]

HeadInputs == SeqsUpTo(HeadingToks \cup {"x"}, MaxHeadings)

InitHead ==
    /\ input \in HeadInputs
    /\ text = input
    /\ card_stt \in CardStts
    /\ scan = 1
    /\ built = <<>>
    /\ subsec = 0
    /\ subsubsec = 0
    /\ para = 0
    /\ nums = <<>>
    /\ PipelineIdle
    /\ EnvironmentsIdle
    /\ OthersIdle

\* start of the leftmost match of heading_pat at or after scan, 0 when none
NextHeading == IF scan = 0 THEN 0 ELSE FirstIn(text, HeadingToks, scan)

Repl(level) ==
    /\ NextHeading # 0
    /\ LevelOf(text[NextHeading]) = level
    /\ LET r == _repl(level, [subsec |-> subsec, subsubsec |-> subsubsec, para |-> para])
       IN  /\ subsec' = r.subsec
           /\ subsubsec' = r.subsubsec
           /\ para' = r.para
           /\ nums' = Append(nums, r.num)
           /\ built' = built \o SubSeq(text, scan, NextHeading - 1) \o <<r.html>>
           /\ scan' = NextHeading + 1
    /\ UNCHANGED <<pc, input, text, code_placeholders, math_store, math_src, math_issued,
                   text_extracted, restored, executed, card_stt, evars, xvars>>

ReplSubsection == Repl("subsection")

ReplSubsubsection == Repl("subsubsection")

ReplParagraph == Repl("paragraph")

\* heading_pat.sub finds no further match: the function returns
HeadReturn ==
    /\ scan # 0
    /\ NextHeading = 0
    /\ text' = built \o SubSeq(text, scan, Len(text))
    /\ scan' = 0
    /\ built' = <<>>
    /\ UNCHANGED <<pc, input, code_placeholders, math_store, math_src, math_issued,
                   text_extracted, restored, executed, card_stt, evars, hvars,
                   xvars>>

NextHead ==
    \/ ReplSubsection
    \/ ReplSubsubsection
    \/ ReplParagraph
    \/ HeadReturn

SpecHead == InitHead /\ [][NextHead]_vars

HeadReturned == scan = 0

----------------------------------------------------------------------------
(* Properties of _number_headings *)

\* the levels of the headings of the input handled so far, in order
RECURSIVE LevelsOf(_)
LevelsOf(s) ==
    IF s = <<>> THEN <<>>
    ELSE (IF Head(s) \in HeadingToks THEN <<LevelOf(Head(s))>> ELSE <<>>)
             \o LevelsOf(Tail(s))

Seen == IF HeadReturned THEN LevelsOf(input) ELSE LevelsOf(SubSeq(input, 1, scan - 1))

\* the number of headings of a level after the last heading of the levels above
SinceLast(ls, level, above) ==
    LET A == {i \in 1..Len(ls) : ls[i] \in above}
        last == IF A = {} THEN 0 ELSE MaxOf(A)
    IN  Cardinality({i \in (last + 1)..Len(ls) : ls[i] = level})

\* C10: incrementing the subsection counter resets the subsubsection and the
\* paragraph counters to zero, and incrementing the subsubsection counter resets
\* the paragraph counter; so after any sequence of headings each counter is the
\* number of headings of its level since the last heading of a higher level, all
\* counters starting at zero; subsection, subsubsection, subsubsection,
\* subsection, subsubsection with prefix 8 gives 8.1, 8.1.1, 8.1.2, 8.2, 8.2.1.
C10_HeadingCounterResets ==
    /\ [][/\ subsec' = subsec + 1 => (subsubsec' = 0 /\ para' = 0)
          /\ subsubsec' = subsubsec + 1 => para' = 0]_vars
    /\ [](/\ subsec = SinceLast(Seen, "subsection", {})
          /\ subsubsec = SinceLast(Seen, "subsubsection", {"subsection"})
          /\ para = SinceLast(Seen, "paragraph", {"subsection", "subsubsection"})
          /\ Len(nums) = Len(Seen)
          /\ (/\ card_stt = 8
              /\ Seen = <<"subsection", "subsubsection", "subsubsection",
                          "subsection", "subsubsection">>) =>
                 nums = <<"8.1", "8.1.1", "8.1.2", "8.2", "8.2.1">>)

\* the five headings of the example have been numbered with prefix 8
C10_Witness ==
    /\ HeadReturned
    /\ card_stt = 8
    /\ LevelsOf(input) = <<"subsection", "subsubsection", "subsubsection",
                           "subsection", "subsubsection">>
    /\ Len(nums) = 5

\* the counters of _number_headings after the first i headings of ls
CountersAfter(ls, i) ==
    [subsec |-> SinceLast(SubSeq(ls, 1, i), "subsection", {}),
     subsubsec |-> SinceLast(SubSeq(ls, 1, i), "subsubsection", {"subsection"}),
     para |-> SinceLast(SubSeq(ls, 1, i), "paragraph", {"subsection", "subsubsection"})]

RECURSIVE JoinDots(_)
JoinDots(segs) ==
    IF Len(segs) = 0 THEN ""
    ELSE IF Len(segs) = 1 THEN ToString(segs[1])
    ELSE ToString(segs[1]) \o "." \o JoinDots(Tail(segs))

\* C11: the number of every heading is the prefix (when supplied), then the
\* counters of the levels above that are not zero, then the count of the
\* heading's own level: no segment 0 is emitted.
C11_NonZeroAncestorsOnly ==
    \A i \in 1..Len(nums) :
        LET c == CountersAfter(Seen, i)
            s == IF c.subsec > 0 THEN <<c.subsec>> ELSE <<>>
            ss == IF c.subsubsec > 0 THEN <<c.subsubsec>> ELSE <<>>
            segs == IF Seen[i] = "subsection" THEN <<c.subsec>>
                    ELSE IF Seen[i] = "subsubsection" THEN s \o <<c.subsubsec>>
                    ELSE s \o ss \o <<c.para>>
            pre == IF card_stt # 0 THEN <<card_stt>> ELSE <<>>
        IN  nums[i] = JoinDots(pre \o segs)

----------------------------------------------------------------------------
(* Figure and table numbering: the loop of convert_project_to_cards over   *)
(* the sections of one chapter, and in each latex_to_html call the two     *)
(* substitutions that number the floats.  One action per call, per match   *)
(* and per end of a substitution.                                          *)

MaxSections == 3
MaxFloats == 2

FloatKinds == {"figure", "table"}

\* 'Hình' and 'Bảng'
FloatWord(kind) == IF kind = "figure" THEN "H\\u00ecnh" ELSE "B\\u1ea3ng"

\* num = f"{card_stt}.{counter[0]}" if card_stt else str(counter[0])
FloatNum(count) ==
    IF card_stt # 0 THEN ToString(card_stt) \o "." \o ToString(count)
    ELSE ToString(count)

\* f'\\caption{{Hình {num}: {cm.group(1)}}}'
NumberedCaption(kind, count) ==
    "\\caption{" \o FloatWord(kind) \o " " \o FloatNum(count) \o ": c}"

\* re.sub(caption pattern, ..., body, count=1)
NumberFirstCaption(body, kind, count) ==
    LET j == FirstAt(body, "\\caption{c}", 1)
    IN  IF j = 0 THEN body
        ELSE SubSeq(body, 1, j - 1) \o <<NumberedCaption(kind, count)>>
                 \o SubSeq(body, j + 1, Len(body))

\* start of the leftmost match of the float pattern at or after i, 0 when none
FloatMatch(s, kind, i) ==
    LET B == {b \in i..Len(s) :
                 s[b] = BeginEnv(kind) /\ FirstAt(s, EndEnv(kind), b + 1) # 0}
    IN  IF B = {} THEN 0 ELSE MinOf(B)

\* where m.group(1) starts: after the optional [placement]
BodyStart(s, b) == IF b + 1 <= Len(s) /\ s[b + 1] = "[h]" THEN b + 2 ELSE b + 1

\* a float without caption, and one with a placement and a caption
FloatItems ==
    {<<BeginEnv(k)>> \o body \o <<EndEnv(k)>> :
        k \in FloatKinds, body \in {<<"x">>, <<"[h]", "\\caption{c}">>}}

RECURSIVE SectionTexts(_)
SectionTexts(k) ==
    IF k = 0 THEN {<<>>}
    ELSE LET shorter == SectionTexts(k - 1)
         IN  shorter \cup {a \o b : a \in shorter, b \in FloatItems}

InitFloat ==
    /\ sec_i = 0
    /\ fphase = "idle"
    /\ figure_counter = 0
    /\ table_counter = 0
    /\ fig_nums = <<>>
    /\ tab_nums = <<>>
    /\ input = <<>>
    /\ text = <<>>
    /\ ScanIdle
    /\ PipelineIdle
    /\ EnvironmentsIdle
    /\ HeadingsIdle
    /\ ListsIdle
    /\ TableIdle
    /\ GraphicsIdle
    /\ InvocationsIdle
    /\ AlgorithmsIdle
    /\ IncludesIdle

FloatFrame == UNCHANGED <<pc, code_placeholders, math_store, math_src, math_issued, text_extracted,
                          restored, executed, evars, hvars, lvars, tvars, gvars, cvars, avars, rvars>>

\* latex_to_html called without the shared counters: each call makes its own
CallSectionOwnCounters ==
    /\ fphase = "idle"
    /\ sec_i < MaxSections
    /\ \E content \in SectionTexts(MaxFloats), stt \in CardStts :
           /\ input' = content
           /\ text' = content
           /\ card_stt' = stt
    /\ sec_i' = sec_i + 1
    /\ fphase' = "figure"
    /\ scan' = 1
    /\ built' = <<>>
    /\ figure_counter' = 0
    /\ table_counter' = 0
    /\ UNCHANGED <<fig_nums, tab_nums>>
    /\ FloatFrame

\* the next iteration of the loop over the sections: latex_to_html is called
\* with the two shared counters
CallSection ==
    /\ fphase = "idle"
    /\ sec_i < MaxSections
    /\ \E content \in SectionTexts(MaxFloats), stt \in CardStts :
           /\ input' = content
           /\ text' = content
           /\ card_stt' = stt
    /\ sec_i' = sec_i + 1
    /\ fphase' = "figure"
    /\ scan' = 1
    /\ built' = <<>>
    /\ UNCHANGED <<figure_counter, table_counter, fig_nums, tab_nums>>
    /\ FloatFrame

_figure_repl ==
    /\ fphase = "figure"
    /\ LET b == FloatMatch(text, "figure", scan)
       IN  /\ b # 0
           /\ LET close == FirstAt(text, EndEnv("figure"), b + 1)
                  body == SubSeq(text, BodyStart(text, b), close - 1)
              IN  /\ figure_counter' = figure_counter + 1
                  /\ built' = built \o SubSeq(text, scan, b - 1)
                                  \o NumberFirstCaption(body, "figure", figure_counter + 1)
                  /\ scan' = close + 1
                  /\ fig_nums' = Append(fig_nums, figure_counter + 1)
    /\ UNCHANGED <<input, text, card_stt, sec_i, fphase, table_counter, tab_nums>>
    /\ FloatFrame

FiguresDone ==
    /\ fphase = "figure"
    /\ FloatMatch(text, "figure", scan) = 0
    /\ SubReturns
    /\ fphase' = "table"
    /\ UNCHANGED <<input, card_stt, sec_i, figure_counter, table_counter, fig_nums,
                   tab_nums>>
    /\ FloatFrame

_table_env_repl ==
    /\ fphase = "table"
    /\ LET b == FloatMatch(text, "table", scan)
       IN  /\ b # 0
           /\ LET close == FirstAt(text, EndEnv("table"), b + 1)
                  body == SubSeq(text, BodyStart(text, b), close - 1)
              IN  /\ table_counter' = table_counter + 1
                  /\ built' = built \o SubSeq(text, scan, b - 1)
                                  \o NumberFirstCaption(body, "table", table_counter + 1)
                  /\ scan' = close + 1
                  /\ tab_nums' = Append(tab_nums, table_counter + 1)
    /\ UNCHANGED <<input, text, card_stt, sec_i, fphase, figure_counter, fig_nums>>
    /\ FloatFrame

\* the table substitution returns; the rest of the call uses neither counter
TablesDone ==
    /\ fphase = "table"
    /\ FloatMatch(text, "table", scan) = 0
    /\ SubReturns
    /\ fphase' = "idle"
    /\ UNCHANGED <<input, card_stt, sec_i, figure_counter, table_counter, fig_nums,
                   tab_nums>>
    /\ FloatFrame

NextFloat ==
    \/ CallSection
    \/ _figure_repl
    \/ FiguresDone
    \/ _table_env_repl
    \/ TablesDone

SpecFloat == InitFloat /\ [][NextFloat]_vars

----------------------------------------------------------------------------
(* Properties of the float numbering *)

\* C12: over the sections of one chapter the shared counters are never reset
\* and never decrease; each figure (table) adds exactly one to its counter, so
\* the figures (tables) of the chapter get the numbers 1, 2, 3, ... in
\* processing order and no number is given twice.
C12_SharedFloatCounters ==
    /\ [][/\ figure_counter' >= figure_counter
          /\ table_counter' >= table_counter
          /\ Len(fig_nums') > Len(fig_nums) => figure_counter' = figure_counter + 1
          /\ Len(tab_nums') > Len(tab_nums) => table_counter' = table_counter + 1]_vars
    /\ [](/\ fig_nums = [i \in 1..figure_counter |-> i]
          /\ tab_nums = [i \in 1..table_counter |-> i])

\* a second section has numbered a figure and a table after the first section
\* numbered one of each
C12_Witness ==
    /\ sec_i = 2
    /\ fphase = "idle"
    /\ figure_counter = 2
    /\ table_counter = 2
    /\ CountTok(input, BeginEnv("figure")) = 1
    /\ CountTok(input, BeginEnv("table")) = 1

----------------------------------------------------------------------------
(* convert_lists(text)                                                     *)
(*                                                                         *)
(* One action for the removal of the enumerate options, one per iteration  *)
(* of the loop, and one for each way the loop ends.                        *)

\* for _ in range(20)
MaxIterations == 20

MaxItems == 2
MaxLists == 21
MaxNest == 3
MaxMarkup == 4

ListKinds == {"itemize", "enumerate"}

ListBegins == {BeginEnv(k) : k \in ListKinds}

ListEnds == {EndEnv(k) : k \in ListKinds}

KindOf(tok) == CHOOSE k \in ListKinds : tok = BeginEnv(k)

\* the tokens of s at the indices K, in order
Keep(s, K) ==
    [n \in 1..Cardinality(K) |->
        s[CHOOSE i \in K : Cardinality({j \in K : j <= i}) = n]]

\* re.sub(r'\\begin\{enumerate\}\[[^\]]*\]', r'\\begin{enumerate}', text)
RemoveEnumerateOptions(s) ==
    Keep(s, {i \in 1..Len(s) :
                ~(i > 1 /\ s[i] = "[a]" /\ s[i - 1] = BeginEnv("enumerate"))})

InnermostAnyEnd(s) ==
    LET B == {b \in 1..Len(s) :
                 /\ s[b] \in ListBegins
                 /\ LET j == FirstIn(s, ListBegins \cup ListEnds, b + 1)
                    IN  j # 0 /\ s[j] \in ListEnds}
    IN  IF B = {} THEN 0 ELSE MinOf(B)

\* start of the match of re.search: the leftmost \begin of a list whose content
\* up to the next \begin or \end of a list holds neither, and is closed by the
\* \end of its own kind; 0 when there is none
Innermost(s) ==
    LET B == {b \in 1..Len(s) :
                 /\ s[b] \in ListBegins
                 /\ LET j == FirstIn(s, ListBegins \cup ListEnds, b + 1)
                    IN  j # 0 /\ s[j] = EndEnv(KindOf(s[b]))}
    IN  IF B = {} THEN 0 ELSE MinOf(B)

\* re.split(r'\\item\b', content); the token is \item with the space after it
RECURSIVE SplitItems(_, _, _, _)
SplitItems(c, i, cur, acc) ==
    IF i > Len(c) THEN Append(acc, cur)
    ELSE IF c[i] = "\\item " THEN SplitItems(c, i + 1, <<>>, Append(acc, cur))
    ELSE SplitItems(c, i + 1, Append(cur, c[i]), acc)

\* re.sub(r'^\[[^\]]*\]\s*', '', item)
RemoveItemLabel(item) ==
    IF item # <<>> /\ item[1] = "[a]"
    THEN LET N == {j \in 2..Len(item) : ~IsSpace(item[j])}
         IN  IF N = {} THEN <<>> ELSE SubSeq(item, MinOf(N), Len(item))
    ELSE item

\* html_items, from the pieces of the content from index i on
RECURSIVE HtmlItems(_, _, _)
HtmlItems(pieces, i, acc) ==
    IF i > Len(pieces) THEN acc
    ELSE LET item == Strip(pieces[i])
         IN  IF item = <<>> THEN HtmlItems(pieces, i + 1, acc)
             ELSE HtmlItems(pieces, i + 1,
                            Append(acc, <<"<li>">> \o RemoveItemLabel(item) \o <<"</li>">>))

\* '\n'.join(html_items)
RECURSIVE JoinLines(_)
JoinLines(items) ==
    IF items = <<>> THEN <<>>
    ELSE IF Len(items) = 1 THEN items[1]
    ELSE items[1] \o <<"\n">> \o JoinLines(Tail(items))

HtmlList(kind, html_items) ==
    LET tag == IF kind = "itemize" THEN "ul" ELSE "ol"
    IN  IF html_items = <<>> THEN <<>>
        ELSE <<"<" \o tag \o ">", "\n">> \o JoinLines(html_items)
                 \o <<"\n", "</" \o tag \o ">">>

----------------------------------------------------------------------------
(* The texts given to convert_lists: lists of up to MaxItems items, lists  *)
(* whose items hold such a list, a chain of lists one inside the other,    *)
(* and lists one after the other                                           *)

RECURSIVE ItemSeqs(_, _)
ItemSeqs(contents, k) ==
    IF k = 0 THEN {<<>>}
    ELSE LET shorter == ItemSeqs(contents, k - 1)
         IN  shorter \cup {a \o <<"\\item ">> \o c : a \in shorter, c \in contents}

ListsOf(contents, n) ==
    {<<BeginEnv(k)>> \o opt \o items \o <<EndEnv(k)>> :
        k \in ListKinds, opt \in {<<>>}, items \in ItemSeqs(contents, n)}

InnerLists == ListsOf({<<"x">>, <<>>}, 1)

OuterLists ==
    ListsOf({<<"x">>, <<"[a]", "x">>} \cup {<<"x">> \o l : l \in InnerLists}, MaxItems)

RECURSIVE Chain(_)
Chain(d) ==
    IF d = 0 THEN <<"x">>
    ELSE <<BeginEnv(IF d % 2 = 0 THEN "itemize" ELSE "enumerate")>>
             \o (IF d % 2 = 0 THEN <<>> ELSE <<"[a]">>)
             \o <<"\\item ">> \o Chain(d - 1)
             \o <<EndEnv(IF d % 2 = 0 THEN "itemize" ELSE "enumerate")>>

RECURSIVE Siblings(_)
Siblings(k) ==
    IF k = 0 THEN <<>>
    ELSE Siblings(k - 1) \o <<BeginEnv("itemize"), "\\item ", "x", EndEnv("itemize")>>

\* malformed and unbalanced markup
Malformed ==
    SeqsUpTo({BeginEnv("itemize"), EndEnv("itemize"), EndEnv("enumerate"), "\\item ", "x"},
             MaxMarkup)

ListInputs ==
    OuterLists \cup {Chain(d) : d \in 0..MaxNest} \cup {Siblings(k) : k \in 0..MaxLists}
        \cup Malformed

InitLists ==
    /\ input \in ListInputs
    /\ text = input
    /\ list_phase = "options"
    /\ list_iter = 0
    /\ list_log = <<>>
    /\ ScanIdle
    /\ PipelineIdle
    /\ EnvironmentsIdle
    /\ HeadingsIdle
    /\ FloatsIdle
    /\ TableIdle
    /\ GraphicsIdle
    /\ InvocationsIdle
    /\ AlgorithmsIdle
    /\ IncludesIdle

ListsFrame == UNCHANGED <<pc, input, code_placeholders, math_store, math_src, math_issued,
                          text_extracted, restored, executed, svars, evars, hvars, fvars,
                          tvars, gvars, cvars, avars, rvars>>

EnumerateOptions ==
    /\ list_phase = "options"
    /\ text' = RemoveEnumerateOptions(text)
    /\ list_phase' = "loop"
    /\ UNCHANGED <<list_iter, list_log>>
    /\ ListsFrame

ConvertInnermost ==
    /\ list_phase = "loop"
    /\ list_iter < MaxIterations
    /\ \E b \in {Innermost(text)} :
           /\ b # 0
           /\ \E close \in {FirstIn(text, ListEnds, b + 1)} :
              \E content \in {SubSeq(text, b + 1, close - 1)} :
              \E html_items \in {HtmlItems(SplitItems(content, 1, <<>>, <<>>), 1, <<>>)} :
                  /\ text' = SubSeq(text, 1, b - 1) \o HtmlList(KindOf(text[b]), html_items)
                                 \o SubSeq(text, close + 1, Len(text))
                  /\ list_log' = Append(list_log,
                                        [items |-> CountTok(content, "\\item "),
                                         lis |-> Len(html_items)])
    /\ list_iter' = list_iter + 1
    /\ UNCHANGED list_phase
    /\ ListsFrame

\* if not m: break
ListsBreak ==
    /\ list_phase = "loop"
    /\ list_iter < MaxIterations
    /\ Innermost(text) = 0
    /\ list_phase' = "returned"
    /\ UNCHANGED <<text, list_iter, list_log>>
    /\ ListsFrame

\* range(20) is exhausted
ListsExhausted ==
    /\ list_phase = "loop"
    /\ list_iter = MaxIterations
    /\ list_phase' = "returned"
    /\ UNCHANGED <<text, list_iter, list_log>>
    /\ ListsFrame

NextLists ==
    \/ EnumerateOptions
    \/ ConvertInnermost
    \/ ListsBreak
    \/ ListsExhausted

SpecLists == InitLists /\ [][NextLists]_vars

\* the call runs to its return: no statement of convert_lists waits
SpecListsRun == SpecLists /\ WF_vars(NextLists)

ListsReturned == list_phase = "returned"

----------------------------------------------------------------------------
(* Properties of convert_lists *)

\* the number of lists open at index i of a text
OpenLists(s, i) ==
    Cardinality({j \in 1..i : s[j] \in ListBegins})
        - Cardinality({j \in 1..i : s[j] \in ListEnds})

\* the depth of the list nesting of a text
NestDepth(s) ==
    LET D == {OpenLists(s, i) : i \in 1..Len(s)}
    IN  IF D = {} THEN 0 ELSE MaxOf(D)

\* C13: convert_lists converts every list of a well-formed text whose lists nest
\* at most 20 deep: when it returns no \begin or \end of itemize or enumerate is
\* left in the text.
C13_AllListsConverted ==
    (ListsReturned /\ NestDepth(input) <= 20) =>
        \A j \in 1..Len(text) : text[j] \notin ListBegins \cup ListEnds

\* C14: every list converted gets as many <li> directly under its <ul>/<ol> as
\* it has \item commands at its own level (the items of the lists inside it
\* have been converted before and are inside an <li>).
C14_OneLiPerItem ==
    \A i \in 1..Len(list_log) : list_log[i].lis = list_log[i].items

----------------------------------------------------------------------------
(* _table_repl(m)                                                          *)
(*                                                                         *)
(* One action for the clean-up and the row split, one per iteration of the *)
(* loop that drops the repeated headers, one for the rendering.  A cell is *)
(* the string of its characters.                                           *)

MaxCells == 5

\* the commands the clean-up removes
TableNoise == {"\\endhead", "\\hline"}

\* lines 602-620, on a content without caption, label or colour commands
CleanTable(content) ==
    Keep(content, {i \in 1..Len(content) : content[i] \notin TableNoise})

\* re.split(r'\\\\(?:\[[^\]]*\])?', content): the pieces from index i on
RECURSIVE SplitRows(_, _, _, _)
SplitRows(c, i, cur, acc) ==
    IF i > Len(c) THEN Append(acc, cur)
    ELSE IF c[i] = "\\\\" THEN SplitRows(c, i + 1, <<>>, Append(acc, cur))
    ELSE SplitRows(c, i + 1, Append(cur, c[i]), acc)

\* rows = [r.strip() for r in ... if r.strip()]
NonEmptyRows(pieces) == SelectSeq(pieces, LAMBDA r : r # <<>>)

\* [c.strip() for c in row.split('&')]: the cells of a row from index i on
RECURSIVE Cells(_, _, _, _)
Cells(row, i, cur, acc) ==
    IF i > Len(row) THEN Append(acc, cur)
    ELSE IF row[i] = "&" THEN Cells(row, i + 1, "", Append(acc, cur))
    ELSE Cells(row, i + 1, cur \o row[i], acc)

\* '|'.join(cells)
RECURSIVE JoinBars(_)
JoinBars(cells) ==
    IF Len(cells) = 1 THEN cells[1]
    ELSE cells[1] \o "|" \o JoinBars(Tail(cells))

cells_text(row) == JoinBars(Cells(row, 1, "", <<>>))

DedupKeepAll(row, seen, data) ==
    [seen |-> IF seen = <<>> THEN <<cells_text(row)>> ELSE seen,
     data |-> Append(data, row)]

\* the body of the loop over rows
Dedup(row, seen, data) ==
    IF seen = <<>> THEN [seen |-> <<cells_text(row)>>, data |-> Append(data, row)]
    ELSE IF cells_text(row) = seen[1] THEN [seen |-> seen, data |-> data]
    ELSE [seen |-> seen, data |-> Append(data, row)]

RECURSIVE RenderCells(_, _, _)
RenderCells(cells, open, close) ==
    IF cells = <<>> THEN <<>>
    ELSE <<open, Head(cells), close>> \o RenderCells(Tail(cells), open, close)

bg_swapped(i) == IF i % 2 = 1 THEN "#f7fafc" ELSE "#fff"

\* bg = '#fff' if i % 2 == 1 else '#f7fafc', i counted from 0
bg(i) == IF i % 2 = 1 THEN "#fff" ELSE "#f7fafc"

\* f'<tr style="background:{bg};">'
BodyRowTok(colour) == "<tr style=\"background:" \o colour \o ";\">"

RECURSIVE RenderRows(_, _)
RenderRows(data, i) ==
    IF i > Len(data) THEN <<>>
    ELSE (IF i = 1
          THEN <<"<thead><tr>">> \o RenderCells(Cells(data[i], 1, "", <<>>), "<th>", "</th>")
                   \o <<"</tr></thead>", "<tbody>">>
          ELSE <<BodyRowTok(bg(i - 1))>> \o RenderCells(Cells(data[i], 1, "", <<>>), "<td>", "</td>")
                   \o <<"</tr>">>)
         \o RenderRows(data, i + 1)

\* the html of the table, without the style attributes of <table>, <th>, <td>
RenderTable(data) == <<"<table>">> \o RenderRows(data, 1) \o <<"</tbody></table>">>

\* a header repeated as the 5th row of 6
RepeatedHeaderTable ==
    <<"h", "\\\\", "a", "\\\\", "b", "\\\\", "a", "\\\\", "h", "\\\\", "b">>

TableInputs ==
    SeqsUpTo({"h", "a", "&", "|", "\\\\", "\\endhead"}, MaxCells)
        \cup {RepeatedHeaderTable}

InitTable ==
    /\ input \in TableInputs
    /\ text = input
    /\ t_phase = "split"
    /\ rows = <<>>
    /\ row_i = 0
    /\ seen_header = <<>>
    /\ data_rows = <<>>
    /\ ScanIdle
    /\ PipelineIdle
    /\ EnvironmentsIdle
    /\ HeadingsIdle
    /\ FloatsIdle
    /\ ListsIdle
    /\ GraphicsIdle
    /\ InvocationsIdle
    /\ AlgorithmsIdle
    /\ IncludesIdle

TableFrame == UNCHANGED <<pc, input, code_placeholders, math_store, math_src, math_issued,
                          text_extracted, restored, executed, svars, evars, hvars, fvars,
                          lvars, gvars, cvars, avars, rvars>>

\* the clean-up and the split; return '' when there is no row
SplitTableRows ==
    /\ t_phase = "split"
    /\ LET rs == NonEmptyRows(SplitRows(CleanTable(text), 1, <<>>, <<>>))
       IN  /\ rows' = rs
           /\ IF rs = <<>>
              THEN text' = <<>> /\ t_phase' = "returned" /\ row_i' = 0
              ELSE text' = text /\ t_phase' = "dedup" /\ row_i' = 1
    /\ UNCHANGED <<seen_header, data_rows>>
    /\ TableFrame

DedupRow ==
    /\ t_phase = "dedup"
    /\ row_i <= Len(rows)
    /\ LET r == Dedup(rows[row_i], seen_header, data_rows)
       IN  seen_header' = r.seen /\ data_rows' = r.data
    /\ row_i' = row_i + 1
    /\ UNCHANGED <<text, t_phase, rows>>
    /\ TableFrame

RenderAndReturn ==
    /\ t_phase = "dedup"
    /\ row_i > Len(rows)
    /\ text' = RenderTable(data_rows)
    /\ t_phase' = "returned"
    /\ UNCHANGED <<rows, row_i, seen_header, data_rows>>
    /\ TableFrame

NextTable ==
    \/ SplitTableRows
    \/ DedupRow
    \/ RenderAndReturn

SpecTable == InitTable /\ [][NextTable]_vars

TableReturned == t_phase = "returned"

----------------------------------------------------------------------------
(* Properties of _table_repl *)

\* the rows after the first whose joined cell text is that of the first row
LaterHeaders(rs) ==
    {i \in 2..Len(rs) : cells_text(rs[i]) = cells_text(rs[1])}

\* C15: every row after the first whose joined cell text equals that of the
\* first row is dropped and the other rows are kept in order: the header is
\* once in the table, in <thead>, and the table has as many rows as there are
\* non-empty input rows less the later rows equal to the header.
C15_HeaderOnce ==
    (TableReturned /\ rows # <<>>) =>
        /\ data_rows = Keep(rows, (1..Len(rows)) \ LaterHeaders(rows))
        /\ Len(data_rows) = Len(rows) - Cardinality(LaterHeaders(rows))
        /\ CountTok(text, "<thead><tr>") = 1
        /\ CountTok(text, "<thead><tr>")
               + Cardinality({j \in 1..Len(text) : text[j] \in {BodyRowTok("#fff"),
                                                                BodyRowTok("#f7fafc")}})
                   = Len(data_rows)
        /\ text[2] = "<thead><tr>"
        /\ cells_text(data_rows[1]) = cells_text(rows[1])
        /\ \A i \in 2..Len(data_rows) :
               cells_text(data_rows[i]) # cells_text(rows[1])

\* the table whose header is repeated as the 5th row of 6 has been rendered
\* with 5 rows
C15_Witness ==
    /\ TableReturned
    /\ input = RepeatedHeaderTable
    /\ Len(rows) = 6
    /\ Len(data_rows) = 5

----------------------------------------------------------------------------
(* convert_includegraphics(text, images_dir)                               *)
(*                                                                         *)
(* The file system is two sets of paths.  One action for the branch of an  *)
(* absent images_dir, one per outcome of _repl for a match, one for the    *)
(* return.                                                                 *)

MaxGraphics == 2

GraphicsToks == {"\\includegraphics{f}", "\\includegraphics[w]{ f }"}

\* m.group(2).strip()
FilenameOf(tok) == "f"

DirNames == {"", "img", "a/img"}

\* os.path.dirname
Dirname(d) == IF d = "a/img" THEN "a" ELSE ""

\* os.path.join
Join(d, name) == d \o "/" \o name

\* search_dirs, from the directories of images_dirs from index i on
RECURSIVE SearchDirs(_, _, _)
SearchDirs(ds, i, acc) ==
    IF i > Len(ds) THEN acc
    ELSE LET d == ds[i]
             seen == {acc[j] : j \in 1..Len(acc)}
             own == IF d # "" /\ d \notin seen THEN <<d>> ELSE <<>>
             parent == IF d # "" THEN Dirname(d) ELSE ""
             subs == <<Join(parent, "figures"), Join(parent, "fig"), Join(parent, "imgs")>>
             up == IF parent # "" /\ parent \notin seen \cup {d}
                   THEN <<parent>>
                        \o SelectSeq(subs, LAMBDA sd : sd \notin seen \cup {d, parent})
                   ELSE <<>>
         IN  SearchDirs(ds, i + 1, acc \o own \o up)

Extensions == <<".png", ".jpg", ".jpeg", ".svg", ".pdf">>

\* the path found in directory d for a file name, "" when there is none
FoundIn(d, name) ==
    IF d \notin dirs_exist THEN ""
    ELSE IF Join(d, name) \in files_exist THEN Join(d, name)
    ELSE LET E == {k \in 1..Len(Extensions) : Join(d, name) \o Extensions[k] \in files_exist}
         IN  IF E = {} THEN "" ELSE Join(d, name) \o Extensions[MinOf(E)]

\* img_path, "" for None
Locate(name) ==
    LET sd == SearchDirs(images_dir.dirs, 1, <<>>)
        F == {k \in 1..Len(sd) : FoundIn(sd[k], name) # ""}
    IN  IF F = {} THEN "" ELSE FoundIn(sd[MinOf(F)], name)

PlaceholderUnnamed(name) ==
    "<p class=\"table-caption\" style=\"text-align:center\"><em>[Image]</em></p>"

\* the paragraph returned for an image that is not found or not read
Placeholder(name) ==
    "<p class=\"table-caption\" style=\"text-align:center\"><em>[Image: "
        \o name \o "]</em></p>"

PdfPlaceholder(name) ==
    "<p class=\"table-caption\" style=\"text-align:center\"><em>[PDF Image: "
        \o name \o "]</em></p>"

\* the <img> of an embedded image, without its data and its style
ImgTag(name, mime) == "<img src=\"data:" \o mime \o ";base64,\" alt=\"" \o name \o "\">"

\* os.path.splitext(img_path)[1].lower(), for the paths the search can give
Ext(path) ==
    LET E == {k \in 1..Len(Extensions) :
                 \E d \in {"img", "a/img", "a", "a/figures", "a/fig", "a/imgs"} :
                     path = Join(d, "f") \o Extensions[k]}
    IN  IF E = {} THEN "" ELSE Extensions[MinOf(E)]

\* MIME_TYPES.get(ext, 'image/png')
Mime(ext) ==
    CASE ext = ".jpg" -> "image/jpeg"
      [] ext = ".jpeg" -> "image/jpeg"
      [] ext = ".gif" -> "image/gif"
      [] ext = ".svg" -> "image/svg+xml"
      [] ext = ".pdf" -> "application/pdf"
      [] OTHER -> "image/png"

IsNeverPdf(path) == FALSE

\* if ext == '.pdf'
IsPdf(path) == Ext(path) = ".pdf"

DirChoices ==
    {[kind |-> "None", dirs |-> <<>>]}
        \cup {[kind |-> "str", dirs |-> <<d>>] : d \in DirNames}
        \cup {[kind |-> "list", dirs |-> ds] : ds \in SeqsUpTo(DirNames, 2)}

InitGraphics ==
    /\ input \in SeqsUpTo(GraphicsToks \cup {"x"}, MaxGraphics)
    /\ text = input
    /\ images_dir \in DirChoices
    /\ dirs_exist \in SUBSET {"img", "a", "a/figures"}
    /\ files_exist \in SUBSET {"img/f", "img/f.png", "img/f.svg", "a/figures/f.pdf"}
    /\ "a/figures" \in dirs_exist => "a" \in dirs_exist
    /\ \A d \in {"img", "a/figures"} :
           (\E n \in {"f", "f.png", "f.svg", "f.pdf"} : Join(d, n) \in files_exist) => d \in dirs_exist
    /\ g_phase = "called"
    /\ card_stt = 0
    /\ scan = 1
    /\ built = <<>>
    /\ PipelineIdle
    /\ EnvironmentsIdle
    /\ HeadingsIdle
    /\ FloatsIdle
    /\ ListsIdle
    /\ TableIdle
    /\ InvocationsIdle
    /\ AlgorithmsIdle
    /\ IncludesIdle

GraphicsFrame == UNCHANGED <<pc, input, code_placeholders, math_store, math_src, math_issued,
                            text_extracted, restored, executed, card_stt, evars, hvars,
                            fvars, lvars, tvars, cvars, avars, rvars, images_dir, dirs_exist, files_exist>>

\* if images_dir is None: strip every \includegraphics and return
StripGraphics ==
    /\ g_phase = "called"
    /\ images_dir.kind = "None"
    /\ text' = Keep(text, {i \in 1..Len(text) : text[i] \notin GraphicsToks})
    /\ g_phase' = "returned"
    /\ UNCHANGED <<scan, built>>
    /\ GraphicsFrame

\* images_dir is normalized to a list and the substitution starts
StartGraphics ==
    /\ g_phase = "called"
    /\ images_dir.kind # "None"
    /\ g_phase' = "sub"
    /\ UNCHANGED <<text, scan, built>>
    /\ GraphicsFrame

NextGraphic == FirstIn(text, GraphicsToks, scan)

Replaced(html) ==
    /\ built' = built \o SubSeq(text, scan, NextGraphic - 1) \o <<html>>
    /\ scan' = NextGraphic + 1
    /\ UNCHANGED <<text, g_phase>>
    /\ GraphicsFrame

ReplNotFound ==
    /\ g_phase = "sub" /\ NextGraphic # 0
    /\ Locate(FilenameOf(text[NextGraphic])) = ""
    /\ Replaced(Placeholder(FilenameOf(text[NextGraphic])))

ReplPdf ==
    /\ g_phase = "sub" /\ NextGraphic # 0
    /\ IsPdf(Locate(FilenameOf(text[NextGraphic])))
    /\ Replaced(PdfPlaceholder(FilenameOf(text[NextGraphic])))

ReplEmbedded ==
    /\ g_phase = "sub" /\ NextGraphic # 0
    /\ Locate(FilenameOf(text[NextGraphic])) # ""
    /\ ~IsPdf(Locate(FilenameOf(text[NextGraphic])))
    /\ Replaced(ImgTag(FilenameOf(text[NextGraphic]),
                       Mime(Ext(Locate(FilenameOf(text[NextGraphic]))))))

\* open() or read() raises: the exception is caught
ReplReadFailed ==
    /\ g_phase = "sub" /\ NextGraphic # 0
    /\ Locate(FilenameOf(text[NextGraphic])) # ""
    /\ ~IsPdf(Locate(FilenameOf(text[NextGraphic])))
    /\ Replaced(Placeholder(FilenameOf(text[NextGraphic])))

GraphicsReturn ==
    /\ g_phase = "sub" /\ NextGraphic = 0
    /\ SubReturns
    /\ g_phase' = "returned"
    /\ GraphicsFrame

NextGraphics ==
    \/ StripGraphics
    \/ StartGraphics
    \/ ReplNotFound
    \/ ReplPdf
    \/ ReplEmbedded
    \/ ReplReadFailed
    \/ GraphicsReturn

SpecGraphics == InitGraphics /\ [][NextGraphics]_vars

GraphicsReturned == g_phase = "returned"

----------------------------------------------------------------------------
(* Properties of convert_includegraphics *)

\* the paragraph that names the file f of the input
ParagraphNamingF ==
    "<p class=\"table-caption\" style=\"text-align:center\"><em>[Image: f]</em></p>"

\* the \includegraphics of the input
GraphicsIn(s) == {i \in 1..Len(s) : s[i] \in GraphicsToks}

----------------------------------------------------------------------------
(* Text without LaTeX constructs through latex_to_html *)

IsPlain(s) == \A j \in 1..Len(s) : s[j] \in PlainAlphabet

\* the characters of s other than the space, the newline and the <p> tags
Visible(s) == SelectSeq(s, LAMBDA t : t \notin {" ", "\n", "<p>", "</p>"})

\* C17: for a text without LaTeX constructs, the text returned by latex_to_html
\* is the text with its special characters substituted and its blocks wrapped in
\* <p>: apart from the <p> tags and the blanks, its characters are those of the
\* input after the substitutions, in order.
C17_PlainTextPassthrough ==
    (Returned /\ IsPlain(input)) => Visible(text) = Visible(SpecialChars(input))

----------------------------------------------------------------------------
(* Document order of the numbers of convert_environments *)

\* the headers that show label L with the count k, with or without a title
NumberedHeaders(L, k) ==
    {HeaderTok(cc, L \o " " \o Num(k)) : cc \in NUMBERED_CSS}
        \cup {HeaderTok(cc, L \o " " \o Num(k) \o " (t)") : cc \in NUMBERED_CSS}

\* the places of the text that hold a numbered header of label L
HeaderPlaces(s, L) ==
    {j \in 1..Len(s) : \E k \in 1..Len(input) : s[j] \in NumberedHeaders(L, k)}

\* C18: in the text returned by one call, the numbered headers of a label are
\* numbered in document order: the i-th header of the label, counted from the
\* start of the text, shows the number i, whether the environment was written
\* with a [title] or without, and under whichever environment name.
C18_DocumentOrder ==
    EnvReturned =>
        \A L \in Labels : \A j \in HeaderPlaces(text, L) :
            text[j] \in NumberedHeaders(L, Cardinality({i \in HeaderPlaces(text, L) : i <= j}))

----------------------------------------------------------------------------
(* restore_math on what protect_math returns *)

\* protect_math has just returned: text and math_store are its result
MathProtected == executed # <<>> /\ executed[Len(executed)] = "protect_math"

\* the orders in which the indices 0..n-1 can be taken
Orders(n) ==
    {p \in [1..n -> 0..(n - 1)] : \A a, b \in 1..n : p[a] = p[b] => a = b}

\* the substitutions of restore_math, taken in the order p from its k-th index on
RECURSIVE RestoreInOrder(_, _, _, _)
RestoreInOrder(s, store, p, k) ==
    IF k > Len(p) THEN s
    ELSE RestoreInOrder(ReplaceTok(s, MathTok(p[k]), store[p[k] + 1]), store, p, k + 1)

\* C19: for the text and the store that protect_math returns, substituting the
\* placeholders in any order of the indices gives the text that restore_math
\* gives (increasing order), and that text holds no placeholder.
C19_RestoreOrderImmaterial ==
    MathProtected =>
        /\ \A p \in Orders(Len(math_store)) :
               RestoreInOrder(text, math_store, p, 1) = restore_math(text, math_store)
        /\ \A j \in 1..Len(restore_math(text, math_store)) :
               ~IsMathTok(restore_math(text, math_store)[j])

----------------------------------------------------------------------------
(* The indices of protect_math *)

\* what the store holds for a span replaced by the save function of that name
Normalized(kind, span) ==
    CASE kind = "save_display" -> save_display(span)
      [] kind = "save_aligned" -> save_aligned(span)
      [] OTHER -> span

\* C20: protect_math issues the indices 0, 1, 2, ... in the order of its saves,
\* one index per token: the k-th save issues index k-1, the store has one entry
\* per token issued, entry i of the store is the (normalized) content of the
\* span that the token of index i replaced, and no token is twice in the text
\* returned, whose tokens all have an entry in the store.
C20_IndicesInSaveOrder ==
    Done("protect_math") =>
        /\ \A k \in 1..Len(math_issued) : math_issued[k].index = k - 1
        /\ Len(math_store) = Len(math_issued)
        /\ \A k \in 1..Len(math_issued) :
               math_store[math_issued[k].index + 1]
                   = Normalized(math_issued[k].kind, math_issued[k].span)
        /\ MathProtected =>
               \A n \in KeyRange :
                   /\ CountTok(text, MathTok(n)) <= 1
                   /\ CountTok(text, MathTok(n)) = 1 => n < Len(math_store)

\* protect_math has returned after saves by two of its functions, the later
\* span holding the token of the earlier one
C20_Witness ==
    /\ MathProtected
    /\ Len(math_issued) >= 2
    /\ math_issued[1].kind # math_issued[2].kind
    /\ CountTok(math_issued[2].span, MathTok(0)) = 1

----------------------------------------------------------------------------
(* Termination of convert_lists *)

ListMarkup(s) == {j \in 1..Len(s) : s[j] \in ListBegins \cup ListEnds}

\* t is s with one whole list, from its \begin to the \end of its own kind and
\* without list markup in between, replaced by text without list markup
OneListReplaced(s, t) ==
    \E b \in {i \in 1..Len(s) : s[i] \in ListBegins} :
    \E c \in {i \in (b + 1)..Len(s) : s[i] = EndEnv(KindOf(s[b]))} :
        /\ \A j \in (b + 1)..(c - 1) : s[j] \notin ListBegins \cup ListEnds
        /\ Len(t) >= Len(s) - (c - b + 1)
        /\ SubSeq(t, 1, b - 1) = SubSeq(s, 1, b - 1)
        /\ SubSeq(t, Len(t) - (Len(s) - c) + 1, Len(t)) = SubSeq(s, c + 1, Len(s))
        /\ \A j \in b..(Len(t) - (Len(s) - c)) : t[j] \notin ListBegins \cup ListEnds

\* C24: convert_lists returns on every input, malformed or unbalanced markup
\* included, after at most 20 iterations; an iteration replaces one innermost
\* list and leaves the rest of the text as it is, and the end of the loop (the
\* bound reached, or no innermost list) leaves the whole text as it is.
C24_ListsTerminate ==
    /\ <>ListsReturned
    /\ [](list_iter <= MaxIterations)
    /\ [][list_phase = "loop" =>
            \/ text' = text /\ list_phase' = "returned"
                 /\ (list_iter = MaxIterations \/ Innermost(text) = 0)
            \/ list_iter' = list_iter + 1 /\ OneListReplaced(text, text')]_vars

\* a call on unbalanced markup has returned: it converted a list and left the
\* markup without its counterpart in the text
C24_Witness ==
    /\ ListsReturned
    /\ input \in Malformed
    /\ list_iter >= 1
    /\ ListMarkup(text) # {}

----------------------------------------------------------------------------
(* Files that convert_includegraphics does not embed *)

\* the <img> tags that embed a file for f
ImgTagsOfF == {ImgTag("f", Mime(Extensions[k])) : k \in 1..Len(Extensions)} \cup {ImgTag("f", Mime(""))}

\* the paragraphs that name f
ParagraphsNamingF ==
    {ParagraphNamingF,
     "<p class=\"table-caption\" style=\"text-align:center\"><em>[PDF Image: f]</em></p>"}

\* C25 as stated: when the file found for an \includegraphics is not a raster
\* image (.pdf, .svg), the text returned holds a paragraph that names the file
\* and no <img> that embeds it.
C25_NoImgForNonRaster ==
    (GraphicsReturned /\ images_dir.kind # "None" /\ GraphicsIn(input) # {}
        /\ Ext(Locate("f")) \in {".pdf", ".svg"}) =>
        /\ \E j \in 1..Len(text) : text[j] \in ParagraphsNamingF
        /\ \A j \in 1..Len(text) : text[j] \notin ImgTagsOfF

\* C25, for PDF: when the file found for an \includegraphics is a .pdf, the
\* text returned holds one paragraph that names the file for every
\* \includegraphics, and no <img>.
C25_NoImgForPdf ==
    (GraphicsReturned /\ images_dir.kind # "None" /\ Ext(Locate("f")) = ".pdf") =>
        /\ Cardinality({j \in 1..Len(text) : text[j] \in ParagraphsNamingF})
               = Cardinality(GraphicsIn(input))
        /\ \A j \in 1..Len(text) : text[j] \notin ImgTagsOfF

\* a call has returned for which the search went to the figures directory next
\* to the parent of images_dir and found the .pdf there
C25_Witness ==
    /\ GraphicsReturned
    /\ Locate("f") = "a/figures/f.pdf"
    /\ GraphicsIn(input) # {}
    /\ \E j \in 1..Len(text) : text[j] \in ParagraphsNamingF

----------------------------------------------------------------------------
(* The rows of the table that _table_repl renders *)

BodyRowToks == {"<tr style=\"background:#fff;\">", "<tr style=\"background:#f7fafc;\">"}

\* the places of the <tr> of the body rows in a text
BodyRowPlaces(s) == {j \in 1..Len(s) : s[j] \in BodyRowToks}

\* C26: the n >= 1 rows that remain are rendered as one <thead> row, built from
\* the first row, and n-1 <tbody> rows after it whose background alternates,
\* #fff for the first body row, then #f7fafc, and so on; with no row the result
\* is the empty string.
C26_HeadThenAlternatingRows ==
    TableReturned =>
        IF rows = <<>> THEN text = <<>>
        ELSE /\ SubSeq(text, 1, 2) = <<"<table>", "<thead><tr>">>
             /\ CountTok(text, "<thead><tr>") = 1
             /\ CountTok(text, "</tr></thead>") = 1
             /\ LET cells == Cells(data_rows[1], 1, "", <<>>)
                IN  /\ \A k \in 1..Len(cells) :
                           SubSeq(text, 3 * k, 3 * k + 2) = <<"<th>", cells[k], "</th>">>
                    /\ text[3 * Len(cells) + 3] = "</tr></thead>"
             /\ Cardinality(BodyRowPlaces(text)) = Len(data_rows) - 1
             /\ \A j \in BodyRowPlaces(text) :
                    /\ j > FirstAt(text, "<tbody>", 1)
                    /\ LET k == Cardinality({i \in BodyRowPlaces(text) : i <= j})
                       IN  text[j] = IF k % 2 = 1 THEN "<tr style=\"background:#fff;\">"
                                     ELSE "<tr style=\"background:#f7fafc;\">"

\* a table of a header row and two body rows has been rendered
C26_Witness ==
    /\ TableReturned
    /\ Len(data_rows) = 3
    /\ Cardinality(BodyRowPlaces(text)) = 2

----------------------------------------------------------------------------
(* The numbers shown in the captions *)

\* the places of the text built so far that hold a numbered caption of a kind
CaptionPlaces(kind) ==
    {j \in 1..Len(built) :
        \E n \in 1..(MaxSections * MaxFloats) : built[j] = NumberedCaption(kind, n)}

\* C28: in a chapter processed section by section, the numbers shown in the
\* captions of the figures are 1, 2, 3, ... in document order, without a gap,
\* and so are those of the tables: a counter advances only when its new value
\* is rendered into a caption.
C28_NoGapInCaptions ==
    /\ [][\A kind \in FloatKinds :
            LET old == IF kind = "figure" THEN figure_counter ELSE table_counter
                new == IF kind = "figure" THEN figure_counter' ELSE table_counter'
            IN  new # old =>
                    CountTok(built', NumberedCaption(kind, new))
                        = CountTok(built, NumberedCaption(kind, new)) + 1]_vars
    /\ [](sec_i = 1 =>
            \A kind \in FloatKinds : \A j \in CaptionPlaces(kind) :
                built[j] = NumberedCaption(kind,
                               Cardinality({i \in CaptionPlaces(kind) : i <= j})))

----------------------------------------------------------------------------
(* Two invocations of latex_to_html that share figure_counter               *)
(*                                                                         *)
(* Each invocation runs _figure_repl once per figure of its section:        *)
(* figure_counter[0] += 1 is a load and a store, and the next statement     *)
(* reads figure_counter[0] for the number.  Nothing in the function locks   *)
(* the counter.  The caller either runs the two invocations one after the  *)
(* other or lets their statements interleave.                              *)

MaxFigs == 2

Invocations == {1, 2}

InitInvocations ==
    /\ c_mode \in {"sequential", "concurrent"}
    /\ c_counter = 0
    /\ c_pc = [k \in Invocations |-> "called"]
    /\ c_left \in [Invocations -> 0..MaxFigs]
    /\ c_tmp = [k \in Invocations |-> 0]
    /\ c_nums = [k \in Invocations |-> <<>>]
    /\ input = <<>>
    /\ text = <<>>
    /\ card_stt = 0
    /\ ScanIdle
    /\ PipelineIdle
    /\ EnvironmentsIdle
    /\ HeadingsIdle
    /\ FloatsIdle
    /\ ListsIdle
    /\ TableIdle
    /\ GraphicsIdle
    /\ AlgorithmsIdle
    /\ IncludesIdle

InvocationsFrame == UNCHANGED <<pvars, svars, evars, hvars, fvars, lvars, tvars, gvars,
                                avars, rvars, c_mode>>

Running(k) == c_pc[k] \notin {"called", "returned"}

\* the caller lets invocation k take a step
Scheduled(k) ==
    c_mode = "concurrent" \/ \A o \in Invocations \ {k} : ~Running(o)

\* re.sub finds the next figure, or none
FigureMatch(k) ==
    /\ Scheduled(k)
    /\ c_pc[k] \in {"called", "match"}
    /\ c_pc' = [c_pc EXCEPT ![k] = IF c_left[k] > 0 THEN "load" ELSE "returned"]
    /\ UNCHANGED <<c_counter, c_left, c_tmp, c_nums>>
    /\ InvocationsFrame

\* figure_counter[0] += 1: the value is loaded
CounterLoad(k) ==
    /\ Scheduled(k)
    /\ c_pc[k] = "load"
    /\ c_tmp' = [c_tmp EXCEPT ![k] = c_counter]
    /\ c_pc' = [c_pc EXCEPT ![k] = "store"]
    /\ UNCHANGED <<c_counter, c_left, c_nums>>
    /\ InvocationsFrame

CounterStoreSame(k) ==
    /\ Scheduled(k)
    /\ c_pc[k] = "store"
    /\ c_counter' = c_tmp[k]
    /\ c_pc' = [c_pc EXCEPT ![k] = "num"]
    /\ UNCHANGED <<c_left, c_tmp, c_nums>>
    /\ InvocationsFrame

\* figure_counter[0] += 1: the sum is stored
CounterStore(k) ==
    /\ Scheduled(k)
    /\ c_pc[k] = "store"
    /\ c_counter' = c_tmp[k] + 1
    /\ c_pc' = [c_pc EXCEPT ![k] = "num"]
    /\ UNCHANGED <<c_left, c_tmp, c_nums>>
    /\ InvocationsFrame

\* num = ... str(figure_counter[0]): the counter is read for the number
FormatNum(k) ==
    /\ Scheduled(k)
    /\ c_pc[k] = "num"
    /\ c_nums' = [c_nums EXCEPT ![k] = Append(@, c_counter)]
    /\ c_left' = [c_left EXCEPT ![k] = @ - 1]
    /\ c_pc' = [c_pc EXCEPT ![k] = "match"]
    /\ UNCHANGED <<c_counter, c_tmp>>
    /\ InvocationsFrame

NextInvocations ==
    \E k \in Invocations :
        \/ FigureMatch(k)
        \/ CounterLoad(k)
        \/ CounterStore(k)
        \/ FormatNum(k)

SpecInvocations == InitInvocations /\ [][NextInvocations]_vars

----------------------------------------------------------------------------
(* Properties of two invocations that share figure_counter *)

\* the figures numbered so far: the invocation and the place in its section
Numbered == {<<k, i>> : k \in Invocations, i \in 1..MaxFigs} \cap
            {p \in Invocations \X (1..MaxFigs) : p[2] <= Len(c_nums[p[1]])}

SameNumberTwice ==
    \E p, q \in Numbered : p # q /\ c_nums[p[1]][p[2]] = c_nums[q[1]][q[2]]

\* C27: nothing synchronizes the shared counter.  When the two invocations run
\* strictly one after the other no two figures are given the same number; when
\* they interleave, a state is reachable in which two figures have the same
\* number (C27_Witness).
C27_SequentialNumbersDistinct ==
    c_mode = "sequential" => ~SameNumberTwice

\* the invocations interleaved between the increment of one figure and the read
\* of its number: every increment took effect and two figures have one number
C27_Witness ==
    /\ c_mode = "concurrent"
    /\ \A k \in Invocations : c_pc[k] = "returned"
    /\ c_counter = Cardinality(Numbered)
    /\ SameNumberTwice

----------------------------------------------------------------------------
(* Pseudocode: _convert_algorithmic_content and _convert_algorithm2e_content *)
(*                                                                         *)
(* The content is a sequence of lines and a line a sequence of tokens: a   *)
(* command name, a brace or a piece of text.                               *)

MaxBlockDepth == 2
MaxAlgLines == 3

cmd_names == {"\\State", "\\If", "\\ElsIf", "\\Else", "\\EndIf", "\\While", "\\EndWhile",
              "\\For", "\\ForAll", "\\EndFor", "\\Repeat", "\\Until", "\\Loop", "\\EndLoop",
              "\\Return", "\\Require", "\\Ensure", "\\Function", "\\EndFunction",
              "\\Procedure", "\\EndProcedure", "\\Comment"}

\* the command names a token starts with
Prefixes(tok) ==
    CASE tok = "\\ForAll" -> {"\\ForAll", "\\For"}
      [] tok = "\\Statex" -> {"\\Statex", "\\State"}
      [] OTHER -> {tok}

\* line.startswith(p)
StartsWith(line, p) == line # <<>> /\ p \in Prefixes(line[1])

Backslashed == cmd_names \cup {"\\Statex", "\\textbf", "\\uIf", "\\ElseIf", "\\ForEach",
                               "\\KwIn", "\\;"}

\* re.sub(rf'(\\(?:{cmd_names})\b)', r'\n\1', content), split('\n') and strip()
RECURSIVE SplitAtCommands(_)
SplitAtCommands(line) ==
    IF line = <<>> THEN <<>>
    ELSE LET cuts == {j \in 2..Len(line) : line[j] \in cmd_names}
         IN  IF cuts = {} THEN <<line>>
             ELSE <<SubSeq(line, 1, MinOf(cuts) - 1)>> \o
                  SplitAtCommands(SubSeq(line, MinOf(cuts), Len(line)))

RECURSIVE SplitLines(_)
SplitLines(lines) ==
    IF lines = <<>> THEN <<>>
    ELSE (IF Head(lines) # <<>> /\ Head(lines)[1] \in cmd_names THEN << <<>> >> ELSE <<>>)
         \o (IF Head(lines) = <<>> THEN << <<>> >> ELSE SplitAtCommands(Head(lines)))
         \o SplitLines(Tail(lines))

\* the position of the brace that closes the one at or after i
RECURSIVE BraceEnd(_, _, _)
BraceEnd(line, i, depth) ==
    IF i > Len(line) THEN Len(line) + 1
    ELSE IF line[i] = "{" THEN BraceEnd(line, i + 1, depth + 1)
    ELSE IF line[i] = "}" /\ depth = 1 THEN i
    ELSE IF line[i] = "}" THEN BraceEnd(line, i + 1, depth - 1)
    ELSE BraceEnd(line, i + 1, depth)

_extract_brace_arg(line, start) ==
    LET idx == FirstAt(line, "{", start)
    IN  IF idx = 0 THEN [content |-> <<>>, pos |-> start]
        ELSE LET e == BraceEnd(line, idx, 0)
             IN  [content |-> SubSeq(line, idx + 1, e - 1),
                  pos |-> IF e > Len(line) THEN Len(line) + 1 ELSE e + 1]

EndCmds == {"\\EndIf", "\\EndWhile", "\\EndFor", "\\EndLoop", "\\EndFunction",
            "\\EndProcedure"}

kw_map(tok) ==
    CASE tok = "\\EndIf" -> "end if"
      [] tok = "\\EndWhile" -> "end while"
      [] tok = "\\EndFor" -> "end for"
      [] tok = "\\EndLoop" -> "end loop"
      [] tok = "\\EndFunction" -> "end function"
      [] tok = "\\EndProcedure" -> "end procedure"

\* the branch of the loop body of _convert_algorithmic_content a line takes
AlgorithmicBranch(line) ==
    CASE line = <<>> -> "empty"
      [] line[1] \in EndCmds -> "End"
      [] line[1] = "\\Else" -> "Else"
      [] StartsWith(line, "\\ElsIf") -> "ElsIf"
      [] StartsWith(line, "\\If") -> "If"
      [] StartsWith(line, "\\While") -> "While"
      [] StartsWith(line, "\\ForAll") -> "ForAll"
      [] StartsWith(line, "\\For") -> "For"
      [] StartsWith(line, "\\Repeat") -> "Repeat"
      [] StartsWith(line, "\\Until") -> "Until"
      [] StartsWith(line, "\\Loop") -> "Loop"
      [] StartsWith(line, "\\Function") -> "Function"
      [] StartsWith(line, "\\Procedure") -> "Procedure"
      [] StartsWith(line, "\\Require") -> "Require"
      [] StartsWith(line, "\\Ensure") -> "Ensure"
      [] StartsWith(line, "\\Return") -> "Return"
      [] StartsWith(line, "\\State") -> "State"
      [] StartsWith(line, "\\Comment") -> "Comment"
      [] line[1] \notin Backslashed -> "plain"
      [] OTHER -> "none"

\* line[n:].strip() for the command the line starts with
RestOf(line) ==
    (IF line[1] = "\\Statex" THEN <<"x">> ELSE <<>>) \o Tail(line)

Cond(line) == _extract_brace_arg(line, 2).content

\* the html _convert_algorithmic_content gives _line for a line, without the spans
AlgorithmicHtml(line) ==
    LET b == AlgorithmicBranch(line)
    IN  CASE b = "End" -> <<kw_map(line[1])>>
          [] b = "Else" -> <<"else">>
          [] b = "ElsIf" -> <<"else if">> \o Cond(line) \o <<"then">>
          [] b = "If" -> <<"if">> \o Cond(line) \o <<"then">>
          [] b = "While" -> <<"while">> \o Cond(line) \o <<"do">>
          [] b = "ForAll" -> <<"for all">> \o Cond(line) \o <<"do">>
          [] b = "For" -> <<"for">> \o Cond(line) \o <<"do">>
          [] b = "Repeat" -> <<"repeat">>
          [] b = "Until" -> <<"until">> \o Cond(line)
          [] b = "Loop" -> <<"loop">>
          [] b \in {"Function", "Procedure"} ->
                LET name == _extract_brace_arg(line, 2)
                IN  <<IF b = "Function" THEN "function" ELSE "procedure">> \o name.content
                    \o <<"(">> \o _extract_brace_arg(line, name.pos).content \o <<")">>
          [] b = "Require" -> <<"Require:">> \o RestOf(line)
          [] b = "Ensure" -> <<"Ensure:">> \o RestOf(line)
          [] b = "Return" -> <<"return">> \o RestOf(line)
          [] b = "State" -> RestOf(line)
          [] b = "Comment" -> <<"&#x25B7;">> \o Cond(line)
          [] b = "plain" -> line

\* re.match(r'\\CMD\{cond\}\s*\{', line) of _convert_algorithm2e_content
OpensBlock(line, cmds) ==
    /\ Len(line) >= 2 /\ line[1] \in cmds /\ line[2] = "{"
    /\ LET e == _extract_brace_arg(line, 2).pos
       IN  e <= Len(line) /\ line[e] = "{"

\* the branch of the loop body of _convert_algorithm2e_content a line takes
Algorithm2eBranch(line) ==
    CASE line = <<>> -> "empty"
      [] line = <<"}">> -> "}"
      [] Len(line) >= 2 /\ line[1] = "\\KwIn" /\ line[2] = "{"
            /\ BraceEnd(line, 2, 0) <= Len(line) -> "Kw"
      [] OpensBlock(line, {"\\If", "\\uIf"}) -> "If"
      [] OpensBlock(line, {"\\ElseIf"}) -> "ElseIf"
      [] Len(line) >= 2 /\ line[1] = "\\Else" /\ line[2] = "{" -> "Else"
      [] OpensBlock(line, {"\\While"}) -> "While"
      [] OpensBlock(line, {"\\For", "\\ForEach"}) -> "For"
      [] line[1] = "\\Return" -> "Return"
      [] OTHER -> "plain"

Algorithm2eHtml(line) ==
    LET b == Algorithm2eBranch(line)
    IN  CASE b = "Kw" -> <<"Input:">> \o Cond(line)
          [] b = "If" -> <<"if">> \o Cond(line) \o <<"then">>
          [] b = "ElseIf" -> <<"else if">> \o Cond(line) \o <<"then">>
          [] b = "Else" -> <<"else">>
          [] b = "While" -> <<"while">> \o Cond(line) \o <<"do">>
          [] b = "For" -> <<IF line[1] = "\\ForEach" THEN "for each" ELSE "for">>
                          \o Cond(line) \o <<"do">>
          [] b = "Return" -> <<"return">> \o Tail(line)
          [] b = "plain" -> line

\* content.replace('\;', '') and strip()
WithoutTerminators(lines) ==
    [j \in 1..Len(lines) |-> SelectSeq(lines[j], LAMBDA tok : tok # "\\;")]

----------------------------------------------------------------------------
(* The pseudocode converted *)

If == <<"\\If", "{", "c", "}">>
Statements == {<<"x">>, <<"\\State", "y">>}

\* an opening line of the algorithmic dialect and the line that closes it
AlgorithmicPairs ==
    {<<If, <<"\\EndIf">> >>,
     << <<"\\While", "{", "c", "}">>, <<"\\EndWhile">> >>,
     << <<"\\For", "{", "c", "}">>, <<"\\EndFor">> >>,
     << <<"\\ForAll", "{", "c", "}">>, <<"\\EndFor">> >>,
     << <<"\\Repeat">>, <<"\\Until", "{", "c", "}">> >>,
     << <<"\\Loop">>, <<"\\EndLoop">> >>,
     << <<"\\Function", "{", "f", "}", "{", "p", "}">>, <<"\\EndFunction">> >>,
     << <<"\\Procedure", "{", "f", "}", "{", "p", "}">>, <<"\\EndProcedure">> >>}

AlgorithmicElse == {<<"\\Else">>, <<"\\ElsIf", "{", "d", "}">>}

RECURSIVE AlgorithmicBlocks(_)
AlgorithmicBlocks(d) ==
    IF d = 0 THEN {<<s>> : s \in Statements}
    ELSE LET B == AlgorithmicBlocks(d - 1)
         IN  B \cup {<<p[1]>> \o b \o <<p[2]>> : p \in AlgorithmicPairs, b \in B}
               \cup {<<If>> \o b \o <<e[1], e[2], <<"\\EndIf">> >> :
                        b \in B, e \in AlgorithmicElse \X Statements}

If2e == <<"\\If", "{", "c", "}", "{">>
Statements2e == {<<"x", "\\;">>, <<"\\Return", "y">>}

Algorithm2eOpeners ==
    {If2e, <<"\\uIf", "{", "c", "}", "{">>, <<"\\While", "{", "c", "}", "{">>,
     <<"\\For", "{", "c", "}", "{">>, <<"\\ForEach", "{", "c", "}", "{">>}

Algorithm2eElse == {<<"\\Else", "{">>, <<"\\ElseIf", "{", "d", "}", "{">>}

RECURSIVE Algorithm2eBlocks(_)
Algorithm2eBlocks(d) ==
    IF d = 0 THEN {<<s>> : s \in Statements2e}
    ELSE LET B == Algorithm2eBlocks(d - 1)
         IN  B \cup {<<o>> \o b \o << <<"}">> >> : o \in Algorithm2eOpeners, b \in B}
               \cup {<<If2e>> \o b \o << <<"}">>, e[1], e[2], <<"}">> >> :
                        b \in B, e \in Algorithm2eElse \X Statements2e}

\* lines in any order, closed or not
AlgorithmicLines ==
    {If, <<"\\Else">>, <<"\\ElsIf", "{", "d", "}">>, <<"\\EndIf">>, <<"\\Repeat">>,
     <<"\\Until", "{", "c", "}">>, <<"\\State", "y">>, <<"\\Statex">>, <<"x">>, <<>>,
     <<"\\textbf", "{", "x", "}">>, <<"x", "\\State", "y">>, <<"\\Require", "x">>,
     <<"\\Ensure", "x">>, <<"\\Return", "x">>, <<"\\Comment", "{", "c", "}">>}

Algorithm2eLines ==
    {If2e, <<"\\Else", "{">>, <<"\\ElseIf", "{", "d", "}", "{">>, <<"}">>,
     <<"\\While", "{", "c", "}", "{">>, <<"x", "\\;">>, <<>>, <<"\\;">>,
     <<"\\If", "{", "c", "}", "{", "x", "}">>, <<"\\textbf", "{", "x", "}">>,
     <<"\\KwIn", "{", "c", "}">>, <<"\\Return", "y">>, <<"\\If", "{", "c", "}">>}

AlgorithmicInputs == AlgorithmicBlocks(MaxBlockDepth) \cup SeqsUpTo(AlgorithmicLines, MaxAlgLines)
Algorithm2eInputs == Algorithm2eBlocks(MaxBlockDepth) \cup SeqsUpTo(Algorithm2eLines, MaxAlgLines)

InitAlgorithms ==
    /\ a_dialect \in {"algorithmic", "algorithm2e"}
    /\ input \in IF a_dialect = "algorithmic" THEN AlgorithmicInputs ELSE Algorithm2eInputs
    /\ a_pc = "called"
    /\ a_lines = <<>>
    /\ a_i = 0
    /\ a_indent = 0
    /\ a_out = <<>>
    /\ a_stack = <<>>
    /\ a_last = <<>>
    /\ text = <<>>
    /\ card_stt = 0
    /\ ScanIdle
    /\ PipelineIdle
    /\ EnvironmentsIdle
    /\ HeadingsIdle
    /\ FloatsIdle
    /\ ListsIdle
    /\ TableIdle
    /\ GraphicsIdle
    /\ InvocationsIdle
    /\ IncludesIdle

AlgorithmsFrame == UNCHANGED <<pvars, svars, evars, hvars, fvars, lvars, tvars, gvars,
                               cvars, rvars, a_dialect>>

\* the lines the loop goes through
SplitContent ==
    /\ a_pc = "called"
    /\ a_lines' = IF a_dialect = "algorithmic" THEN SplitLines(input)
                  ELSE WithoutTerminators(input)
    /\ a_i' = 1
    /\ a_pc' = "lines"
    /\ UNCHANGED <<a_indent, a_out, a_stack, a_last>>
    /\ AlgorithmsFrame

AtLine(dialect) == a_pc = "lines" /\ a_dialect = dialect /\ a_i <= Len(a_lines)

Branch == IF a_dialect = "algorithmic" THEN AlgorithmicBranch(a_lines[a_i])
          ELSE Algorithm2eBranch(a_lines[a_i])

\* _line(ind, html)
_line(ind, html) == Append(a_out, [ind |-> ind, html |-> html])

Dedent == IF a_indent - 1 > 0 THEN a_indent - 1 ELSE 0

Pop == IF a_stack = <<>> THEN <<>> ELSE SubSeq(a_stack, 1, Len(a_stack) - 1)
Closed == IF a_stack = <<>> THEN <<>> ELSE <<a_stack[Len(a_stack)]>>
Push(kind, at) == Append(a_stack, [kind |-> kind, at |-> at])

\* if not line: continue
EmptyLine ==
    /\ a_pc = "lines" /\ a_i <= Len(a_lines)
    /\ Branch = "empty"
    /\ a_i' = a_i + 1
    /\ UNCHANGED <<a_pc, a_lines, a_indent, a_out, a_stack, a_last>>
    /\ AlgorithmsFrame

\* \End..., \Until
AlgorithmicClose ==
    /\ AtLine("algorithmic")
    /\ Branch \in {"End", "Until"}
    /\ a_indent' = Dedent
    /\ a_out' = _line(Dedent, AlgorithmicHtml(a_lines[a_i]))
    /\ a_stack' = Pop
    /\ a_last' = Closed
    /\ a_i' = a_i + 1
    /\ UNCHANGED <<a_pc, a_lines>>
    /\ AlgorithmsFrame

\* \Else, \ElsIf
AlgorithmicElseLine ==
    /\ AtLine("algorithmic")
    /\ Branch \in {"Else", "ElsIf"}
    /\ a_out' = _line(Dedent, AlgorithmicHtml(a_lines[a_i]))
    /\ a_indent' = Dedent + 1
    /\ a_last' = <<>>
    /\ a_i' = a_i + 1
    /\ UNCHANGED <<a_pc, a_lines, a_stack>>
    /\ AlgorithmsFrame

\* \If, \While, \ForAll, \For, \Repeat, \Loop, \Function, \Procedure
AlgorithmicOpen ==
    /\ AtLine("algorithmic")
    /\ Branch \in {"If", "While", "ForAll", "For", "Repeat", "Loop", "Function", "Procedure"}
    /\ a_out' = _line(a_indent, AlgorithmicHtml(a_lines[a_i]))
    /\ a_indent' = a_indent + 1
    /\ a_stack' = Push(IF Branch = "If" THEN "if" ELSE "block", a_indent)
    /\ a_last' = <<>>
    /\ a_i' = a_i + 1
    /\ UNCHANGED <<a_pc, a_lines>>
    /\ AlgorithmsFrame

\* \Require, \Ensure, \Return, \State, \Comment and plain text
AlgorithmicStatement ==
    /\ AtLine("algorithmic")
    /\ Branch \in {"Require", "Ensure", "Return", "State", "Comment", "plain"}
    /\ a_out' = _line(a_indent, AlgorithmicHtml(a_lines[a_i]))
    /\ a_last' = <<>>
    /\ a_i' = a_i + 1
    /\ UNCHANGED <<a_pc, a_lines, a_indent, a_stack>>
    /\ AlgorithmsFrame

\* a line that starts with a backslash and with none of the commands
AlgorithmicNoBranch ==
    /\ AtLine("algorithmic")
    /\ Branch = "none"
    /\ a_last' = <<>>
    /\ a_i' = a_i + 1
    /\ UNCHANGED <<a_pc, a_lines, a_indent, a_out, a_stack>>
    /\ AlgorithmsFrame

\* if line == '}'
Algorithm2eClose ==
    /\ AtLine("algorithm2e")
    /\ Branch = "}"
    /\ a_indent' = Dedent
    /\ a_stack' = Pop
    /\ a_last' = Closed
    /\ a_i' = a_i + 1
    /\ UNCHANGED <<a_pc, a_lines, a_out>>
    /\ AlgorithmsFrame

\* \If{..}{, \uIf{..}{, \While{..}{, \For{..}{, \ForEach{..}{
Algorithm2eOpen ==
    /\ AtLine("algorithm2e")
    /\ Branch \in {"If", "While", "For"}
    /\ a_out' = _line(a_indent, Algorithm2eHtml(a_lines[a_i]))
    /\ a_indent' = a_indent + 1
    /\ a_stack' = Push(IF Branch = "If" THEN "if" ELSE "block", a_indent)
    /\ a_last' = <<>>
    /\ a_i' = a_i + 1
    /\ UNCHANGED <<a_pc, a_lines>>
    /\ AlgorithmsFrame

\* \ElseIf{..}{, \Else{
Algorithm2eElseLine ==
    /\ AtLine("algorithm2e")
    /\ Branch \in {"ElseIf", "Else"}
    /\ a_out' = _line(Dedent, Algorithm2eHtml(a_lines[a_i]))
    /\ a_indent' = Dedent + 1
    /\ a_stack' = IF a_last # <<>> /\ a_last[1].kind = "if"
                  THEN Push("if", a_last[1].at) ELSE Push("block", Dedent)
    /\ a_last' = <<>>
    /\ a_i' = a_i + 1
    /\ UNCHANGED <<a_pc, a_lines>>
    /\ AlgorithmsFrame

\* \KwIn, \Return and the plain statement
Algorithm2eStatement ==
    /\ AtLine("algorithm2e")
    /\ Branch \in {"Kw", "Return", "plain"}
    /\ a_out' = _line(a_indent, Algorithm2eHtml(a_lines[a_i]))
    /\ a_last' = <<>>
    /\ a_i' = a_i + 1
    /\ UNCHANGED <<a_pc, a_lines, a_indent, a_stack>>
    /\ AlgorithmsFrame

\* return '\n'.join(lines_html)
AlgorithmReturn ==
    /\ a_pc = "lines" /\ a_i > Len(a_lines)
    /\ a_pc' = "returned"
    /\ UNCHANGED <<a_lines, a_i, a_indent, a_out, a_stack, a_last>>
    /\ AlgorithmsFrame

NextAlgorithms ==
    \/ SplitContent
    \/ EmptyLine
    \/ AlgorithmicClose
    \/ AlgorithmicElseLine
    \/ AlgorithmicOpen
    \/ AlgorithmicStatement
    \/ AlgorithmicNoBranch
    \/ Algorithm2eClose
    \/ Algorithm2eOpen
    \/ Algorithm2eElseLine
    \/ Algorithm2eStatement
    \/ AlgorithmReturn

SpecAlgorithms == InitAlgorithms /\ [][NextAlgorithms]_vars

----------------------------------------------------------------------------
(* Properties of the pseudocode converters *)

AtSomeLine == a_pc = "lines" /\ a_i <= Len(a_lines)

\* the level the line of this step is rendered at
Rendered == a_out'[Len(a_out')].ind

\* the if whose else the line of this step is: the block still open in the
\* algorithmic dialect, the block the lone brace before it closed in algorithm2e
IfContinued ==
    IF a_dialect = "algorithmic"
    THEN (IF a_stack # <<>> /\ a_stack[Len(a_stack)].kind = "if"
          THEN <<a_stack[Len(a_stack)]>> ELSE <<>>)
    ELSE (IF a_last # <<>> /\ a_last[1].kind = "if" THEN a_last ELSE <<>>)

IsElseLine == Branch \in {"Else", "ElsIf", "ElseIf"}

IsStatement == Branch \in {"State", "Return", "plain"}

\* C21: in both dialects an else / else-if line is rendered at the level of
\* the if line it continues, and a statement in the body of an if or of its
\* else one level deeper than that if line, at every nesting depth.
C21_ElseAtLevelOfIf ==
    [][AtSomeLine =>
          /\ (IsElseLine /\ IfContinued # <<>>) => Rendered = IfContinued[1].at
          /\ (IsStatement /\ a_stack # <<>> /\ a_stack[Len(a_stack)].kind = "if")
                => Rendered = a_stack[Len(a_stack)].at + 1]_vars

IsOpener == Branch \in {"If", "While", "For", "ForAll", "Function", "Procedure", "Repeat",
                        "Loop"}

IsCloser == Branch \in {"End", "Until", "}"}

BalancedBlocks == AlgorithmicBlocks(MaxBlockDepth) \cup Algorithm2eBlocks(MaxBlockDepth)

\* C22: the indent level is never negative; an opener is rendered at the
\* current level and adds one to it; in input whose openers and closers are
\* balanced each closer takes one off, and the level is 0 after the last line.
C22_IndentDiscipline ==
    /\ [](a_indent >= 0)
    /\ [][(AtSomeLine /\ IsOpener) => Rendered = a_indent /\ a_indent' = a_indent + 1]_vars
    /\ [][(AtSomeLine /\ IsCloser /\ input \in BalancedBlocks)
             => a_indent' = a_indent - 1]_vars
    /\ []((a_pc = "returned" /\ input \in BalancedBlocks) => a_indent = 0)

\* C23: a line that is not empty and is none of the commands gives exactly one
\* output line, with its text, at the current level.
C23_UnrecognizedLinesPassThrough ==
    [][(AtSomeLine /\ Branch \in {"plain", "none"})
          => a_out' = Append(a_out, [ind |-> a_indent, html |-> a_lines[a_i]])]_vars

----------------------------------------------------------------------------
(* Includes: resolve_includes (resolve_tex.py)                              *)
(*                                                                         *)
(* A project is a function from paths to file contents, all in the root    *)
(* directory; path 1 is the main file.  A content is a sequence of the     *)
(* file's own text and of \input, \include and \import commands.           *)

MaxFiles == 3
MaxIncludes == 2
MAX_DEPTH == 20

OwnText(k) == [cmd |-> "text", file |-> k]
Command(cmd, k) == [cmd |-> cmd, file |-> k]
Clearpage == [cmd |-> "clearpage", file |-> 0]

\* what the main file can hold after its own text
MainCommands ==
    {Command("input", k) : k \in 1..MaxFiles} \cup {Command("include", 2), Command("import", 2)}

\* what another file inputs: the main file, itself, the next file, or a name
\* no file has (0)
OtherTargets(k) == {0, 1, k} \cup ({k + 1} \cap (1..MaxFiles))

\* the main file includes up to MaxIncludes files, every other file one
Projects ==
    {[k \in 1..MaxFiles |->
        IF k = 1 THEN <<OwnText(1)>> \o m ELSE <<OwnText(k), Command("input", o[k])>>] :
     m \in SeqsUpTo(MainCommands, MaxIncludes),
     o \in {f \in [2..MaxFiles -> 0..MaxFiles] : \A k \in 2..MaxFiles : f[k] \in OtherTargets(k)}}

\* every file includes the next one, two files more than MAX_DEPTH
DeepProject ==
    [k \in 1..(MAX_DEPTH + 2) |->
        IF k = MAX_DEPTH + 2 THEN <<OwnText(k)>>
        ELSE <<OwnText(k), Command("input", k + 1)>>]

\* _resolve_file_path: the file of that name in the root directory, or None (0)
_resolve_file_path(filename) == IF filename \in DOMAIN r_files THEN filename ELSE 0

Frame(path, depth) ==
    [path |-> path, depth |-> depth, pass |-> "input", toks |-> r_files[path], i |-> 1,
     acc |-> <<>>]

VisitNothing(visited, path) == visited

\* visited.add(abs_path)
Visit(visited, path) == visited \cup {path}

InitIncludes ==
    /\ r_files \in Projects \cup {DeepProject}
    /\ r_phase = "called"
    /\ r_stack = <<>>
    /\ r_visited = {}
    /\ r_reads = <<>>
    /\ r_skipped = <<>>
    /\ r_result = <<>>
    /\ input = <<>>
    /\ text = <<>>
    /\ card_stt = 0
    /\ ScanIdle
    /\ PipelineIdle
    /\ EnvironmentsIdle
    /\ HeadingsIdle
    /\ FloatsIdle
    /\ ListsIdle
    /\ TableIdle
    /\ GraphicsIdle
    /\ InvocationsIdle
    /\ AlgorithmsIdle

IncludesFrame == UNCHANGED <<pvars, svars, evars, hvars, fvars, lvars, tvars, gvars,
                             cvars, avars, r_files>>

\* the call in progress and the command its re.sub is at
Top == r_stack[Len(r_stack)]
AtCommand ==
    /\ r_phase = "running"
    /\ Top.i <= Len(Top.toks)
    /\ \/ Top.pass = "input" /\ Top.toks[Top.i].cmd \in {"input", "include"}
       \/ Top.pass = "import" /\ Top.toks[Top.i].cmd = "import"
Target == _resolve_file_path(Top.toks[Top.i].file)

\* content = '\n\\clearpage\n' + content + '\n\\clearpage\n' for \include
Wrapped(cmd, content) ==
    IF cmd = "include" THEN <<Clearpage>> \o content \o <<Clearpage>> ELSE content

\* the command at Top.i is replaced by content
Replace(content) ==
    [r_stack EXCEPT ![Len(r_stack)] =
        [@ EXCEPT !.acc = @ \o Wrapped(Top.toks[Top.i].cmd, content), !.i = @ + 1]]

\* resolve_includes(main_tex_path, root_dir)
ResolveMain ==
    /\ r_phase = "called"
    /\ r_phase' = "running"
    /\ r_visited' = Visit({}, 1)
    /\ r_reads' = <<1>>
    /\ r_stack' = <<Frame(1, 0)>>
    /\ UNCHANGED <<r_skipped, r_result>>
    /\ IncludesFrame

\* re.sub copies what is between the matches
CopyText ==
    /\ r_phase = "running"
    /\ Top.i <= Len(Top.toks)
    /\ ~AtCommand
    /\ r_stack' = [r_stack EXCEPT ![Len(r_stack)] =
                      [@ EXCEPT !.acc = Append(@, Top.toks[Top.i]), !.i = @ + 1]]
    /\ UNCHANGED <<r_phase, r_visited, r_reads, r_skipped, r_result>>
    /\ IncludesFrame

\* if resolved is None: return full_match
IncludeNotFound ==
    /\ AtCommand
    /\ Target = 0
    /\ r_stack' = [r_stack EXCEPT ![Len(r_stack)] =
                      [@ EXCEPT !.acc = Append(@, Top.toks[Top.i]), !.i = @ + 1]]
    /\ UNCHANGED <<r_phase, r_visited, r_reads, r_skipped, r_result>>
    /\ IncludesFrame

\* the call returns '' at once: if depth > MAX_DEPTH
IncludeTooDeep ==
    /\ AtCommand
    /\ Target # 0
    /\ Top.depth + 1 > MAX_DEPTH
    /\ r_stack' = Replace(<<>>)
    /\ UNCHANGED <<r_phase, r_visited, r_reads, r_skipped, r_result>>
    /\ IncludesFrame

\* the call returns '' at once: if abs_path in visited
IncludeVisited ==
    /\ AtCommand
    /\ Target # 0
    /\ Top.depth + 1 <= MAX_DEPTH
    /\ Target \in r_visited
    /\ r_stack' = Replace(<<>>)
    /\ r_skipped' = Append(r_skipped,
                           [path |-> Target,
                            chain |-> {r_stack[j].path : j \in 1..Len(r_stack)}])
    /\ UNCHANGED <<r_phase, r_visited, r_reads, r_result>>
    /\ IncludesFrame

\* the call adds the path to visited and reads the file
IncludeRead ==
    /\ AtCommand
    /\ Target # 0
    /\ Top.depth + 1 <= MAX_DEPTH
    /\ Target \notin r_visited
    /\ r_visited' = Visit(r_visited, Target)
    /\ r_reads' = Append(r_reads, Target)
    /\ r_stack' = Append(r_stack, Frame(Target, Top.depth + 1))
    /\ UNCHANGED <<r_phase, r_skipped, r_result>>
    /\ IncludesFrame

\* the first re.sub is done; the second one runs on its result
ImportPass ==
    /\ r_phase = "running"
    /\ Top.i > Len(Top.toks)
    /\ Top.pass = "input"
    /\ r_stack' = [r_stack EXCEPT ![Len(r_stack)] =
                      [@ EXCEPT !.pass = "import", !.toks = Top.acc, !.acc = <<>>, !.i = 1]]
    /\ UNCHANGED <<r_phase, r_visited, r_reads, r_skipped, r_result>>
    /\ IncludesFrame

\* return text, to the callback of the calling file
IncludeReturn ==
    /\ r_phase = "running"
    /\ Top.i > Len(Top.toks)
    /\ Top.pass = "import"
    /\ Len(r_stack) > 1
    /\ \E caller \in {r_stack[Len(r_stack) - 1]} :
          r_stack' = [SubSeq(r_stack, 1, Len(r_stack) - 1) EXCEPT ![Len(r_stack) - 1] =
                         [@ EXCEPT !.acc = @ \o Wrapped(caller.toks[caller.i].cmd, Top.acc),
                                   !.i = @ + 1]]
    /\ UNCHANGED <<r_phase, r_visited, r_reads, r_skipped, r_result>>
    /\ IncludesFrame

\* return text, to the caller of resolve_includes
ResolveReturn ==
    /\ r_phase = "running"
    /\ Top.i > Len(Top.toks)
    /\ Top.pass = "import"
    /\ Len(r_stack) = 1
    /\ r_result' = Top.acc
    /\ r_stack' = <<>>
    /\ r_phase' = "returned"
    /\ UNCHANGED <<r_visited, r_reads, r_skipped>>
    /\ IncludesFrame

NextIncludes ==
    \/ ResolveMain
    \/ CopyText
    \/ IncludeNotFound
    \/ IncludeTooDeep
    \/ IncludeVisited
    \/ IncludeRead
    \/ ImportPass
    \/ IncludeReturn
    \/ ResolveReturn

SpecIncludes == InitIncludes /\ [][NextIncludes]_vars

\* the call, once made, is run to its end
SpecIncludesRun == SpecIncludes /\ WF_vars(NextIncludes)

----------------------------------------------------------------------------
(* Properties of resolve_includes *)

ResolveReturned == r_phase = "returned"

\* C29: resolve_includes terminates on every project, whatever includes what;
\* no file is read twice: a call for a path in visited reads nothing and
\* contributes no text, and so does a call at a depth above 20.
C29_IncludesTerminate ==
    /\ <>ResolveReturned
    /\ [](\A i, j \in 1..Len(r_reads) : r_reads[i] = r_reads[j] => i = j)
    /\ [](\A j \in 1..Len(r_stack) : r_stack[j].depth <= 20)
    /\ [][(AtCommand /\ Target # 0 /\ (Target \in r_visited \/ Top.depth >= 20))
             => /\ r_reads' = r_reads
                /\ Len(r_stack') = Len(r_stack)
                /\ r_stack'[Len(r_stack)].acc =
                      Top.acc \o Wrapped(Top.toks[Top.i].cmd, <<>>)]_vars

\* a file included itself, directly or through another file, and the call returned
C29_Witness ==
    /\ ResolveReturned
    /\ \E j \in 1..Len(r_skipped) : r_skipped[j].path \in r_skipped[j].chain

\* C30: the visited guard answers '' only for a file that is being expanded
\* higher up in the chain of calls.
C30_DroppedOnlyWhenCircular ==
    \A j \in 1..Len(r_skipped) : r_skipped[j].path \in r_skipped[j].chain

====
